---- MODULE Spec2Model ----
(***************************************************************************)
(* A model of the Open WebUI plugin scripts of Mara-Li/openwebui-scripts:  *)
(*   - Tools.add_memory          (src/Tools/add_memory.py)                 *)
(*   - Tools.get_current_weather (src/Tools/weather_forecast.py)           *)
(*   - Tools.get_marine_weather  (src/Tools/marine_weather.py)             *)
(* Text is a sequence of one-character strings, so that splitting,         *)
(* stripping, matching and number parsing are computed as the code         *)
(* computes them.  The host (memory store, progress sink) and the network  *)
(* are the environment: their answers are chosen nondeterministically.     *)
(***************************************************************************)
EXTENDS Integers, Sequences, FiniteSets, TLC

VARIABLES
    \* ---- the forecast tool (weather_forecast.py)
    wx_user_valves,  \* self.user_valves of the Tools instance
    wx_calls,        \* invocations started on the instance
    wx_pc,           \* position of the get_current_weather invocation
    wx_location, wx_user, wx_metadata, wx_sink,   \* its arguments
    wx_latitude, wx_longitude,                     \* latitude, longitude
    wx_resolved,     \* resolved_location (Unbound until assigned)
    wx_speed_unit,   \* calculated_speed_unit
    wx_geo_response, \* geo_response, the answer to the geocoding search
    wx_requests,     \* network requests of the invocation, in order
    wx_events,       \* status events delivered to the sink
    wx_result,       \* what the invocation returned or raised
    \* ---- the marine tool (marine_weather.py)
    mar_user_valves, \* self.user_valves of the Tools instance
    mar_calls,       \* invocations started on the instance
    mar_pc,          \* position of the get_marine_weather invocation
    mar_location, mar_user, mar_metadata, mar_sink,   \* its arguments
    mar_latitude, mar_longitude, mar_resolved,         \* lat, lon, resolved_name
    mar_geo,         \* geo, the answer to the geocoding search
    mar_requests,    \* network requests of the invocation, in order
    mar_events,      \* status events delivered to the sink
    mar_result,      \* what the invocation returned or raised
    \* ---- the host's memory store and the memory tool (add_memory.py)
    memories,        \* the user's entries in the host store, in the store's order
    store_calls,     \* every call made on the store, in order
    valves,          \* Tools.valves of the memory tool
    am_pc,           \* position of the add_memory invocation
    am_user,         \* its __user__ argument
    am_sink,         \* behaviour of its __event_emitter__
    input_text,      \* its candidate list (after normalisation, line 172)
    sorted_memories, \* the snapshot read and sorted at lines 181-182
    cand,            \* index of the next candidate of the for loop (line 186)
    added, updated, failed,   \* the three outcome lists (lines 183-185)
    am_events,       \* status events delivered to the sink
    am_result,       \* what the invocation returned or raised
    \* ---- the forecast stage of get_current_weather (weather_forecast.py)
    rp_pc,           \* position in the stage
    rp_valves,       \* self.user_valves
    rp_sink,         \* behaviour of __event_emitter__
    rp_date, rp_hour,   \* the date and hour arguments
    rp_base,         \* base, datetime.now() of line 47
    combined_str,    \* the text given to the parser (lines 48-52)
    rp_parsed,       \* parsed, the parser's answer (<<>> is None)
    target_hour_str, \* the target hour of line 404
    hourly_data,     \* the "hourly" object of the payload
    rp_index,        \* index of the selected hour (<<>> until found)
    rp_events,       \* status events delivered to the sink in the stage
    rp_result,       \* what the invocation returned or raised
    \* ---- a call of build_weather_report (weather_forecast.py)
    br_pc,           \* "call" before the call, "built" after it
    br_data,         \* its data argument
    report_lines,    \* what the call gave: the lines, or an error raised
    \* ---- the report stage of get_marine_weather (marine_weather.py)
    mr_pc,           \* position in the stage
    mr_valves,       \* self.user_valves
    mr_sink,         \* behaviour of __event_emitter__
    mr_hour,         \* the hour argument
    mr_parsed_time,  \* parsed_time, the parser's answer for the hour (<<>> is None)
    mr_parsed_date,  \* parsed_date, the parser's answer for the date (<<>> is None)
    mr_weather_days, \* weather_days, the days of the payload
    mr_events,       \* status events delivered to the sink in the stage
    mr_result,       \* what the invocation returned or raised
    \* ---- the wind of one hourly record of the marine report (marine_weather.py)
    wd_pc,           \* "call" before the record is formatted, "shown" after
    wd_setting,      \* self.user_valves.wind
    wd_hourly,       \* the record's windspeedKmph and windspeedMiles
    wd_wind,         \* wind and wind_unit of lines 316-323
    \* ---- the inlet filters (add_user_info.py, add_metadata.py)
    fl_calls,        \* calls of inlet made so far
    fl_filter,       \* the filter of the last call
    fl_user,         \* its __user__ argument
    fl_body,         \* its body argument, as given
    ui_user_valves,  \* self.user_valves of the add_user_info filter (<<>> is None)
    md_user_valves,  \* self.user_valves of the add_metadata filter
    fl_result,       \* what the last call returned or raised
    \* ---- the vision pipe (vision_multimodal.py)
    pp_pc,           \* position of the pipe invocation
    pp_valves,       \* self.valves
    pp_given,        \* body["messages"] as given (<<>>: no such key)
    pp_body,         \* the body, as the invocation has it now
    pp_calls,        \* the calls of generate_chat_completion, in order
    pp_result,       \* what the invocation returned or raised
    \* ---- two invocations of get_current_weather on one Tools instance
    cw_user_valves,  \* self.user_valves of the instance
    cw_pc,           \* position of each invocation
    cw_own,          \* the valves of each invocation's __user__
    cw_speed_unit,   \* calculated_speed_unit of each invocation
    cw_resolved,     \* resolved_location of each invocation (<<>> until named)
    cw_request,      \* the forecast request of each invocation (<<>> until built)
    cw_report        \* the settings of each invocation's report (<<>> until built)

memVars == <<memories, store_calls, valves, am_pc, am_user, am_sink, input_text,
             sorted_memories, cand, added, updated, failed, am_events, am_result>>

wxVars == <<wx_user_valves, wx_calls, wx_pc, wx_location, wx_user, wx_metadata, wx_sink,
            wx_latitude, wx_longitude, wx_resolved, wx_speed_unit, wx_requests,
            wx_events, wx_result, wx_geo_response>>

marVars == <<mar_user_valves, mar_calls, mar_pc, mar_location, mar_user, mar_metadata,
             mar_sink, mar_latitude, mar_longitude, mar_resolved, mar_requests,
             mar_events, mar_result, mar_geo>>

rpVars == <<rp_pc, rp_valves, rp_sink, rp_date, rp_hour, rp_base, combined_str, rp_parsed,
            target_hour_str, hourly_data, rp_index, rp_events, rp_result>>

brVars == <<br_pc, br_data, report_lines>>

mrVars == <<mr_pc, mr_valves, mr_sink, mr_hour, mr_parsed_time, mr_parsed_date,
            mr_weather_days, mr_events, mr_result>>

wdVars == <<wd_pc, wd_setting, wd_hourly, wd_wind>>

\* the variables of the components added to the three tools and their stages
flVars == <<fl_calls, fl_filter, fl_user, fl_body, ui_user_valves, md_user_valves,
            fl_result>>

ppVars == <<pp_pc, pp_valves, pp_given, pp_body, pp_calls, pp_result>>

cwVars == <<cw_user_valves, cw_pc, cw_own, cw_speed_unit, cw_resolved, cw_request,
            cw_report>>

extVars == <<wdVars, flVars, ppVars, cwVars>>

vars == <<memVars, wxVars, marVars, rpVars, brVars, mrVars, extVars>>

None == "None"
\* a missing text, and a missing number (a number x that is present is <<x>>)
NoText == <<"None">>
NoNumber == <<>>

(***************************************************************************)
(* Bounds of the model.                                                    *)
(***************************************************************************)
MaxStore == 2      \* entries in the store when add_memory is called
MaxBatch == 2      \* candidates in one add_memory call
MaxCalls == 2      \* invocations of a weather tool on one Tools instance

(***************************************************************************)
(* Text helpers.                                                           *)
(***************************************************************************)
Min(a, b) == IF a <= b THEN a ELSE b

(***************************************************************************)
(* Python string operations, on sequences of characters.                   *)
(***************************************************************************)
Digits == {"0", "1", "2", "3", "4", "5", "6", "7", "8", "9"}

DigitValue(c) ==
    CASE c = "0" -> 0 [] c = "1" -> 1 [] c = "2" -> 2 [] c = "3" -> 3 [] c = "4" -> 4
      [] c = "5" -> 5 [] c = "6" -> 6 [] c = "7" -> 7 [] c = "8" -> 8 [] OTHER -> 9

\* c in s
Contains(s, c) == \E i \in 1..Len(s) : s[i] = c

\* str.strip()
RECURSIVE LStrip(_)
LStrip(s) == IF s # <<>> /\ Head(s) = " " THEN LStrip(Tail(s)) ELSE s

RECURSIVE RStrip(_)
RStrip(s) == IF s # <<>> /\ s[Len(s)] = " " THEN RStrip(SubSeq(s, 1, Len(s) - 1)) ELSE s

Strip(s) == RStrip(LStrip(s))

\* str.split(sep) for a one-character separator
RECURSIVE Split(_, _)
Split(s, sep) ==
    IF ~Contains(s, sep) THEN <<s>>
    ELSE LET i == CHOOSE k \in 1..Len(s) : s[k] = sep /\ \A j \in 1..(k - 1) : s[j] # sep
         IN  <<SubSeq(s, 1, i - 1)>> \o Split(SubSeq(s, i + 1, Len(s)), sep)

\* str.replace(" ", "-")
ReplaceSpaces(s) == [i \in 1..Len(s) |-> IF s[i] = " " THEN "-" ELSE s[i]]

\* str.lower(), on the letters of the model
LowerChar(c) ==
    CASE c = "A" -> "a" [] c = "I" -> "i" [] c = "D" -> "d" [] c = "F" -> "f"
      [] c = "P" -> "p" [] c = "T" -> "t" [] c = "X" -> "x" [] OTHER -> c

Lower(s) == [i \in 1..Len(s) |-> LowerChar(s[i])]

\* urllib.parse.quote: letters, digits and "_.-~/" are kept, the rest is
\* percent-encoded
QuoteChar(c) ==
    CASE c = " " -> "%20" [] c = "," -> "%2C" [] c = "deg" -> "%C2%B0" [] OTHER -> c

Quote(s) == [i \in 1..Len(s) |-> QuoteChar(s[i])]

\* re.match(r"\d+", s): s starts with a digit
MatchDigits(s) == s # <<>> /\ s[1] \in Digits

RECURSIVE DigitsValue(_)
DigitsValue(s) ==
    IF s = <<>> THEN 0 ELSE 10 * DigitsValue(SubSeq(s, 1, Len(s) - 1)) + DigitValue(s[Len(s)])

\* float(s): surrounding blanks are skipped, then an optional sign and decimal
\* digits with at most one point; anything else raises ValueError.  The value
\* is kept in tenths (the numbers of the model have one decimal).
ParseFloat(s) ==
    LET t == Strip(s)
        signed == t # <<>> /\ t[1] \in {"-", "+"}
        body == IF signed THEN Tail(t) ELSE t
        dots == {i \in 1..Len(body) : body[i] = "."}
        wellformed == /\ \A i \in 1..Len(body) : body[i] \in Digits \cup {"."}
                      /\ Cardinality(dots) <= 1
                      /\ \E i \in 1..Len(body) : body[i] \in Digits
        dot == IF dots = {} THEN Len(body) + 1 ELSE CHOOSE i \in dots : TRUE
        frac == SubSeq(body, dot + 1, Len(body))
        mag == 10 * DigitsValue(SubSeq(body, 1, dot - 1))
               + (IF frac = <<>> THEN 0 ELSE DigitValue(frac[1]))
    IN  IF wellformed
        THEN [ok |-> TRUE, value |-> IF signed /\ t[1] = "-" THEN 0 - mag ELSE mag]
        ELSE [ok |-> FALSE, value |-> 0]

\* the longest prefix of s made of characters [\d\.]
RECURSIVE NumRun(_)
NumRun(s) ==
    IF s # <<>> /\ Head(s) \in Digits \cup {"."} THEN <<Head(s)>> \o NumRun(Tail(s)) ELSE <<>>

\* re.match(r"(?P<lat>[\d\.]+), (?P<long>[\d\.]+)", s)
MatchMetaLocation(s) ==
    LET lat == NumRun(s)
        rest == SubSeq(s, Len(lat) + 1, Len(s))
        long == IF Len(rest) >= 2 THEN NumRun(SubSeq(rest, 3, Len(rest))) ELSE <<>>
    IN  IF /\ lat # <<>>
           /\ Len(rest) >= 2 /\ rest[1] = "," /\ rest[2] = " "
           /\ long # <<>>
        THEN [matched |-> TRUE, lat |-> lat, long |-> long]
        ELSE [matched |-> FALSE, lat |-> <<>>, long |-> <<>>]

\* a Python value that is None or 0 is falsy
Falsy(x) == x = NoNumber \/ x = <<0>>

(***************************************************************************)
(* difflib.SequenceMatcher(None, a, b).ratio(), without junk (strings      *)
(* shorter than 200 characters have no automatic junk).                    *)
(***************************************************************************)
\* find_longest_match: the longest block a[i..i+k-1] = b[j..j+k-1]; among the
\* longest the one starting earliest in a, and among those earliest in b.
Blocks(a, b) ==
    {t \in (1..Len(a)) \X (1..Len(b)) \X (1..Min(Len(a), Len(b))) :
        /\ t[1] + t[3] - 1 <= Len(a)
        /\ t[2] + t[3] - 1 <= Len(b)
        /\ SubSeq(a, t[1], t[1] + t[3] - 1) = SubSeq(b, t[2], t[2] + t[3] - 1)}

FindLongestMatch(a, b) ==
    LET bs == Blocks(a, b)
    IN  IF bs = {} THEN <<1, 1, 0>>
        ELSE CHOOSE t \in bs :
                \A u \in bs :
                    \/ t[3] > u[3]
                    \/ t[3] = u[3] /\ t[1] < u[1]
                    \/ t[3] = u[3] /\ t[1] = u[1] /\ t[2] <= u[2]

\* get_matching_blocks: the longest match, then recursively the pieces to its
\* left and to its right; the result is the number of matched characters.
RECURSIVE Matches(_, _)
Matches(a, b) ==
    LET m == FindLongestMatch(a, b)
    IN  IF m[3] = 0 THEN 0
        ELSE m[3]
             + Matches(SubSeq(a, 1, m[1] - 1), SubSeq(b, 1, m[2] - 1))
             + Matches(SubSeq(a, m[1] + m[3], Len(a)), SubSeq(b, m[2] + m[3], Len(b)))

\* ratio() = 2.0 * M / T, and 1.0 when both strings are empty; kept as the
\* exact fraction num/den.
Ratio(a, b) ==
    IF Len(a) + Len(b) = 0 THEN [num |-> 1, den |-> 1]
    ELSE [num |-> 2 * Matches(a, b), den |-> Len(a) + Len(b)]

\* similarity > self.valves.threshold (line 192), on exact fractions
Exceeds(r, t) == r.num * t.den > t.num * r.den

(***************************************************************************)
(* The memory tool: src/Tools/add_memory.py                                *)
(***************************************************************************)
\* memory contents used as inputs: "ab" and "abc", whose ratio is exactly 4/5,
\* the default threshold
Contents == { <<"a", "b">>, <<"a", "b", "c">> }

\* Valves.threshold: the default 0.8 (line 73) and a lower setting 0.5
Thresholds == { [num |-> 4, den |-> 5], [num |-> 1, den |-> 2] }

\* __user__: absent, an empty dict, a dict without "id", a dict with "id"
NoUser == [kind |-> "absent"]
EmptyUser == [kind |-> "empty"]
UserNoId == [kind |-> "dict", id |-> None]
UserU1 == [kind |-> "dict", id |-> "u1"]
Users == {NoUser, EmptyUser, UserNoId, UserU1}

\* __event_emitter__: None, a sink that accepts events, a sink that raises
Sinks == {"absent", "accepts", "fails"}

\* what a call on the host store can do: succeed, return a falsy value (None),
\* or raise
Outcomes == {"ok", "falsy", "raise"}

Perms(n) == {p \in [1..n -> 1..n] : \A i, j \in 1..n : i # j => p[i] # p[j]}

\* the stores add_memory can find: up to MaxStore entries, whose order in the
\* store need not be their order of creation
Stores ==
    UNION { { [i \in 1..n |-> [id |-> i, content |-> c[i], created_at |-> p[i]]] :
                c \in [1..n -> Contents], p \in Perms(n) } : n \in 0..MaxStore }

Lists(n) == UNION { [1..k -> Contents] : k \in 0..n }

\* input_text: a list of strings or, tolerated by line 172, one string
InputTexts ==
    { [kind |-> "list", items |-> l] : l \in Lists(MaxBatch) }
    \cup { [kind |-> "str", items |-> <<c>>] : c \in Contents }

\* sorted(user_memories, key=lambda m: m.created_at) (line 182): stable
RECURSIVE InsertSorted(_, _)
InsertSorted(e, s) ==
    IF s = <<>> THEN <<e>>
    ELSE IF Head(s).created_at <= e.created_at
         THEN <<Head(s)>> \o InsertSorted(e, Tail(s))
         ELSE <<e>> \o s

RECURSIVE SortByCreatedAt(_)
SortByCreatedAt(s) ==
    IF s = <<>> THEN <<>>
    ELSE InsertSorted(s[Len(s)], SortByCreatedAt(SubSeq(s, 1, Len(s) - 1)))

\* Memories.update_memory_by_id(id, content), when it succeeds
UpdateMemoryById(st, id, content) ==
    [i \in 1..Len(st) |-> IF st[i].id = id THEN [st[i] EXCEPT !.content = content]
                          ELSE st[i]]

MaxCreatedAt(st) ==
    IF st = <<>> THEN 0
    ELSE CHOOSE t \in {st[i].created_at : i \in 1..Len(st)} :
            \A i \in 1..Len(st) : st[i].created_at <= t

\* Memories.insert_new_memory(user_id, content), when it succeeds
InsertNewMemory(st, content) ==
    Append(st, [id |-> Len(st) + 1, content |-> content,
                created_at |-> MaxCreatedAt(st) + 1])

\* one status event (EventEmitter.emit, lines 23-42)
Status(description, status, done) ==
    [description |-> description, status |-> status, done |-> done]

\* what emit leaves in the sink's log when it does not raise
Emit(events, sink, ev) == IF sink = "accepts" THEN Append(events, ev) ELSE events

\* _reply (lines 89-93): the message, JSON-wrapped for native tools
Reply(message) == [json |-> valves.use_native_tools, message |-> message]

Returned(value) == [kind |-> "returned", value |-> value]
Raised(error) == [kind |-> "raised", error |-> error]
Pending == [kind |-> "none"]

ErrorMessage(text) == [tag |-> "error", text |-> text]

\* the except clause (lines 240-244): emit the error, return the error message;
\* a raising sink makes the handler itself raise
AddMemoryExcept(events, sink, text) ==
    IF sink = "fails"
    THEN [events |-> events, result |-> Raised("sink error")]
    ELSE [events |-> Emit(events, sink, Status(text, "error", TRUE)),
          result |-> Returned(Reply(ErrorMessage(text)))]

\* "if not __user__" (line 157) and "if not user_id" (line 165)
MissingUserMut(u) == u.kind = "absent"
MissingUser(u) == u.kind \in {"absent", "empty"} \/ u.id = None

\* the ratios of the contents of the model, computed once
Similarity == [a \in Contents, b \in Contents |-> Ratio(a, b)]

\* The scan of one candidate over the snapshot (lines 188-197), from entry idx
\* on: upd[k] is what the store answers to an update of entry k.
RECURSIVE Scan(_, _, _, _, _)
Scan(new, idx, st, calls, upd) ==
    IF idx > Len(sorted_memories)
    THEN [store |-> st, calls |-> calls, hit |-> 0, raised |-> FALSE]
    ELSE LET existing == sorted_memories[idx]
             call == [op |-> "update", cand |-> cand, id |-> existing.id,
                      content |-> new, result |-> upd[idx]]
         IN  IF Exceeds(Similarity[new, existing.content], valves.threshold)
             THEN CASE upd[idx] = "raise" ->
                         [store |-> st, calls |-> Append(calls, call),
                          hit |-> 0, raised |-> TRUE]
                    [] upd[idx] = "ok" ->
                         [store |-> UpdateMemoryById(st, existing.id, new),
                          calls |-> Append(calls, call),
                          hit |-> idx, raised |-> FALSE]
                    [] OTHER -> Scan(new, idx + 1, st, Append(calls, call), upd)
             ELSE Scan(new, idx + 1, st, calls, upd)

MemInit ==
    /\ memories \in Stores
    /\ store_calls = <<>>
    /\ valves \in [threshold : Thresholds, use_native_tools : BOOLEAN]
    /\ am_pc = "idle"
    /\ am_user = NoUser
    /\ am_sink = "absent"
    /\ input_text = <<>>
    /\ sorted_memories = <<>>
    /\ cand = 1
    /\ added = <<>>
    /\ updated = <<>>
    /\ failed = <<>>
    /\ am_events = <<>>
    /\ am_result = Pending

\* add_memory up to the first candidate (lines 152-185)
AddMemoryBegin ==
    /\ am_pc = "idle"
    /\ \E u \in Users, inp \in InputTexts, sink \in Sinks, read \in Outcomes :
        /\ am_user' = u
        /\ am_sink' = sink
        /\ input_text' = inp.items
        /\ IF MissingUser(u)
           THEN \* the message is emitted, then self._format_response, which the
                \* class does not define, raises AttributeError into the except
                LET ev == IF sink = "fails" THEN <<>>
                          ELSE Emit(<<>>, sink,
                                    Status("User ID not provided.", "missing_user_id", TRUE))
                    ex == AddMemoryExcept(ev, sink,
                              IF sink = "fails" THEN "sink error" ELSE "AttributeError")
                IN  /\ am_events' = ex.events
                    /\ am_result' = ex.result
                    /\ am_pc' = "done"
                    /\ UNCHANGED <<store_calls, sorted_memories>>
           ELSE IF sink = "fails"
           THEN \* the first emit (line 175) raises
                LET ex == AddMemoryExcept(<<>>, sink, "sink error")
                IN  /\ am_events' = ex.events
                    /\ am_result' = ex.result
                    /\ am_pc' = "done"
                    /\ UNCHANGED <<store_calls, sorted_memories>>
           ELSE LET ev == Emit(<<>>, sink,
                               Status("Processing memory entries.", "processing_memory", FALSE))
                    call == [op |-> "read", cand |-> 0, id |-> 0, content |-> <<>>,
                             result |-> read]
                IN  /\ store_calls' = Append(store_calls, call)
                    /\ IF read = "ok"
                       THEN /\ sorted_memories' = SortByCreatedAt(memories)
                            /\ am_events' = ev
                            /\ am_result' = am_result
                            /\ am_pc' = "loop"
                       ELSE \* the store raised, or returned None and sorted() raised
                            LET ex == AddMemoryExcept(ev, sink,
                                        IF read = "raise" THEN "store error" ELSE "TypeError")
                            IN  /\ am_events' = ex.events
                                /\ am_result' = ex.result
                                /\ am_pc' = "done"
                                /\ UNCHANGED sorted_memories
    /\ UNCHANGED <<memories, valves, cand, added, updated, failed>>
    /\ UNCHANGED <<wxVars, marVars, rpVars, brVars, mrVars, extVars>>

\* one iteration of "for new in input_text" (lines 186-203)
ProcessCandidate ==
    /\ am_pc = "loop"
    /\ cand <= Len(input_text)
    /\ \E upd \in [1..Len(sorted_memories) -> Outcomes], ins \in Outcomes :
       \E sc \in {Scan(input_text[cand], 1, memories, store_calls, upd)} :
        LET new == input_text[cand]
            icall == [op |-> "insert", cand |-> cand, id |-> 0, content |-> new,
                      result |-> ins]
        IN  IF sc.raised
            THEN \E ex \in {AddMemoryExcept(am_events, am_sink, "store error")} :
                     /\ memories' = sc.store
                     /\ store_calls' = sc.calls
                     /\ am_events' = ex.events
                     /\ am_result' = ex.result
                     /\ am_pc' = "done"
                     /\ UNCHANGED <<cand, added, updated, failed>>
            ELSE IF sc.hit # 0
            THEN /\ memories' = sc.store
                 /\ store_calls' = sc.calls
                 /\ updated' = Append(updated, <<sc.hit, new>>)
                 /\ cand' = cand + 1
                 /\ UNCHANGED <<added, failed, am_events, am_result, am_pc>>
            ELSE /\ store_calls' = Append(sc.calls, icall)
                 /\ CASE ins = "ok" ->
                            /\ memories' = InsertNewMemory(sc.store, new)
                            /\ added' = Append(added, new)
                            /\ cand' = cand + 1
                            /\ UNCHANGED <<updated, failed, am_events, am_result, am_pc>>
                      [] ins = "falsy" ->
                            /\ memories' = sc.store
                            /\ failed' = Append(failed, new)
                            /\ cand' = cand + 1
                            /\ UNCHANGED <<added, updated, am_events, am_result, am_pc>>
                      [] OTHER ->
                            \E ex \in {AddMemoryExcept(am_events, am_sink, "store error")} :
                                /\ memories' = sc.store
                                /\ am_events' = ex.events
                                /\ am_result' = ex.result
                                /\ am_pc' = "done"
                                /\ UNCHANGED <<cand, added, updated, failed>>
    /\ UNCHANGED <<valves, am_user, am_sink, input_text, sorted_memories>>
    /\ UNCHANGED <<wxVars, marVars, rpVars, brVars, mrVars, extVars>>

\* the summary without its "nothing changed" case
MessagePartsMut ==
    (IF added # <<>> THEN <<[what |-> "added", n |-> Len(added)]>> ELSE <<>>)
    \o (IF updated # <<>> THEN <<[what |-> "updated", n |-> Len(updated)]>> ELSE <<>>)
    \o (IF failed # <<>> THEN <<[what |-> "failed", n |-> Len(failed)]>> ELSE <<>>)

\* the summary (lines 204-238)
MessageParts ==
    LET parts ==
            (IF added # <<>> THEN <<[what |-> "added", n |-> Len(added)]>> ELSE <<>>)
            \o (IF updated # <<>> THEN <<[what |-> "updated", n |-> Len(updated)]>> ELSE <<>>)
            \o (IF failed # <<>> THEN <<[what |-> "failed", n |-> Len(failed)]>> ELSE <<>>)
    IN  IF added = <<>> /\ updated = <<>> /\ failed = <<>>
        THEN <<[what |-> "nothing", n |-> 0]>>
        ELSE parts

SummaryMessage ==
    [tag |-> "summary",
     parts |-> MessageParts,
     added_str |-> IF valves.use_native_tools THEN <<>> ELSE added,
     updated_str |-> IF valves.use_native_tools THEN <<>> ELSE updated]

AddMemoryFinish ==
    /\ am_pc = "loop"
    /\ cand > Len(input_text)
    /\ IF am_sink = "fails"
       THEN LET ex == AddMemoryExcept(am_events, am_sink, "sink error")
            IN  /\ am_events' = ex.events
                /\ am_result' = ex.result
       ELSE /\ am_events' = Emit(am_events, am_sink, Status("Traitement termine.", "done", TRUE))
            /\ am_result' = Returned(Reply(SummaryMessage))
    /\ am_pc' = "done"
    /\ UNCHANGED <<memories, store_calls, valves, am_user, am_sink, input_text,
                   sorted_memories, cand, added, updated, failed>>
    /\ UNCHANGED <<wxVars, marVars, rpVars, brVars, mrVars, extVars>>

(***************************************************************************)
(* The network, as the weather tools see it.                               *)
(***************************************************************************)
\* the reverse-geocoding call (nominatim): a display name, a success without
\* display name, a non-success status, or a transport error
ReverseOutcomes == {"name", "noname", "notok", "raise"}

\* candidates of the geocoding search; admin1 and country may be missing
GeoTexas == [name |-> "Paris", admin1 |-> <<"T", "X">>, country |-> "US",
             latitude |-> 336, longitude |-> 0 - 955]
GeoIdf   == [name |-> "Paris", admin1 |-> <<"I", "d", "f">>, country |-> "FR",
             latitude |-> 488, longitude |-> 23]
GeoBare  == [name |-> "Aix", admin1 |-> NoText, country |-> None,
             latitude |-> 435, longitude |-> 54]

\* no geocoding search was made
NoGeo == [kind |-> "none", results |-> <<>>]

\* the geocoding search: a transport error, a status other than 200, a payload
\* without results, or a list of candidates
GeoResponses ==
    { [kind |-> "raise", results |-> <<>>],
      [kind |-> "bad", results |-> <<>>],
      [kind |-> "ok", results |-> <<>>],
      [kind |-> "ok", results |-> <<GeoTexas, GeoIdf>>],
      [kind |-> "ok", results |-> <<GeoBare, GeoTexas>>] }

\* the forecast request: a transport error, a status other than 200, a payload
\* without current weather, a usable payload
ForecastOutcomes == {"raise", "bad", "nocurrent", "ok"}

\* location arguments
LocEmpty     == <<>>
LocComma     == <<"4", "5", ".", "7", ",", " ", "4", ".", "8">>   \* "45.7, 4.8"
LocSlash     == <<"4", "5", ".", "7", "/", "4", ".", "8">>        \* "45.7/4.8"
LocCross     == <<"4", "5", ".", "7", "x", "4", ".", "8">>        \* "45.7x4.8"
LocSouth     == <<"-", "4", "5", ".", "7", ",", "4", ".", "8">>   \* "-45.7,4.8"
LocCity      == <<"P", "a", "u">>                                 \* "Pau"
LocCityX     == <<"A", "i", "x">>                                 \* "Aix"
LocCityState == <<"P", "a", "u", ",", " ", "I", "D", "F">>        \* "Pau, IDF"
LocNumbered  == <<"9", "e", ",", " ", "7", "e">>                  \* "9e, 7e"

Locations == {LocEmpty, LocComma, LocSlash, LocCross, LocSouth, LocCity, LocCityX,
              LocCityState, LocNumbered}

\* __metadata__: None, a dict whose variables hold no location, and variables
\* holding {{USER_LOCATION}}
NoMetadata == [kind |-> "absent", user_location |-> NoText]
MetadataNoLocation == [kind |-> "dict", user_location |-> NoText]
MetaNorth == <<"4", "5", ".", "7", ",", " ", "4", ".", "8">>      \* "45.7, 4.8"
MetaSouth == <<"-", "3", ".", "5", ",", " ", "4", ".", "8">>      \* "-3.5, 4.8"
MetaBroken == <<"4", ".", ".", "5", ",", " ", "4", ".", "8">>     \* "4..5, 4.8"
Metadatas ==
    {NoMetadata, MetadataNoLocation}
    \cup { [kind |-> "dict", user_location |-> m] : m \in {MetaNorth, MetaSouth, MetaBroken} }

\* __metadata__["variables"].get("{{USER_LOCATION}}"), None when there is none
MetaLocation(meta) == IF meta.kind = "dict" THEN meta.user_location ELSE NoText

(***************************************************************************)
(* The forecast tool: src/Tools/weather_forecast.py                        *)
(***************************************************************************)
\* UserValves with the defaults of lines 219-255
DefaultUserValves ==
    [use_imperial |-> FALSE, shorten_location |-> FALSE, show_humidity |-> TRUE,
     show_precipitation |-> TRUE, show_wind |-> TRUE, wind_speed_unit |-> "km/h",
     show_visibility |-> FALSE, show_uv_index |-> FALSE, show_sun_times |-> FALSE,
     show_pressure |-> FALSE, show_cloud_cover |-> FALSE, language |-> "en"]

\* settings a user can have saved
ImperialUserValves == [DefaultUserValves EXCEPT !.use_imperial = TRUE]
SailorUserValves ==
    [DefaultUserValves EXCEPT !.wind_speed_unit = "Knots", !.shorten_location = TRUE,
                              !.show_humidity = FALSE, !.show_visibility = TRUE,
                              !.show_uv_index = TRUE, !.show_sun_times = TRUE]
UserValveChoices == {DefaultUserValves, ImperialUserValves, SailorUserValves}

\* __user__: None, a dict without valves, a dict with the user's valves
WxUsers ==
    { [kind |-> "absent", valves |-> <<>>], [kind |-> "dict", valves |-> <<>>] }
    \cup { [kind |-> "dict", valves |-> <<v>>] : v \in UserValveChoices }

\* "__user__ and __user__.get('valves')" (line 314)
HasValves(u) == u.kind = "dict" /\ u.valves # <<>>

\* self.user_valves after lines 314-315
AssignUserValves(u, current) == IF HasValves(u) THEN u.valves[1] ELSE current

\* speed_unit (lines 22-31)
SpeedUnit(unit, use_imperial) ==
    LET lowered == IF unit = "Knots" THEN "knots" ELSE unit
    IN  CASE lowered = "km/h" -> "kmh"
          [] lowered = "m/s" -> "ms"
          [] lowered = "mph" -> "mph"
          [] lowered = "knots" -> "kn"
          [] OTHER -> IF use_imperial THEN "mph" ELSE "kmh"

\* build_hourly_params (lines 114-137)
BuildHourlyParams(uv) ==
    <<"apparent_temperature", "relativehumidity_2m", "precipitation", "windspeed_10m",
      "winddirection_10m", "weathercode", "temperature_2m">>
    \o (IF uv.show_humidity THEN <<"dewpoint_2m">> ELSE <<>>)
    \o (IF uv.show_precipitation THEN <<"precipitation_probability">> ELSE <<>>)
    \o (IF uv.show_visibility THEN <<"visibility">> ELSE <<>>)
    \o (IF uv.show_pressure THEN <<"surface_pressure">> ELSE <<>>)
    \o (IF uv.show_cloud_cover THEN <<"cloudcover">> ELSE <<>>)

\* build_daily_params (lines 140-147)
BuildDailyParams(uv) ==
    (IF uv.show_uv_index THEN <<"uv_index_max">> ELSE <<>>)
    \o (IF uv.show_sun_times THEN <<"sunrise", "sunset">> ELSE <<>>)

\* the forecast request of lines 414-434
ForecastRequest(lat, lon, uv, unit) ==
    [api |-> "forecast", latitude |-> lat, longitude |-> lon,
     hourly |-> BuildHourlyParams(uv), daily |-> BuildDailyParams(uv),
     wind_speed_unit |-> unit,
     temperature_unit |-> IF uv.use_imperial THEN "fahrenheit" ELSE None,
     precipitation_unit |-> IF uv.use_imperial THEN "inch" ELSE None]

SearchRequest(name) == [api |-> "search", name |-> name]
ReverseRequest(lat, lon) == [api |-> "reverse", latitude |-> lat, longitude |-> lon]

\* resolve_geo (lines 195-209), when the request does not raise
DisplayName(rev, lat, lon) ==
    [kind |-> IF rev = "name" THEN "display_name" ELSE "coordinates",
     latitude |-> lat, longitude |-> lon]

\* the candidate chosen at lines 379-387
\* (state_query is NoText when the location has no comma)
RECURSIVE FirstAdmin1(_, _)
FirstAdmin1(results, state_query) ==
    IF results = <<>> THEN <<>>
    ELSE IF Head(results).admin1 # NoText /\ Lower(Head(results).admin1) = Lower(state_query)
         THEN <<Head(results)>>
         ELSE FirstAdmin1(Tail(results), state_query)

ChosenGeo(results, state_query) ==
    LET byState == IF state_query # NoText /\ state_query # <<>>
                   THEN FirstAdmin1(results, state_query) ELSE <<>>
    IN  IF byState # <<>> THEN byState[1] ELSE results[1]

\* resolved_location of lines 393-397
ResolvedLocation(geo, uv) ==
    [kind |-> "place", name |-> geo.name,
     admin1 |-> IF ~uv.shorten_location THEN geo.admin1 ELSE NoText,
     country |-> geo.country]

WxStatus(description, done) == [description |-> description, done |-> done]

JsonMessage(message) == [json |-> TRUE, message |-> message]

\* the except clause of lines 566-569
WxExcept(events, sink, text) ==
    IF sink = "fails"
    THEN [events |-> events, result |-> Raised("sink error")]
    ELSE [events |-> Emit(events, sink, WxStatus(text, TRUE)),
          result |-> Returned(JsonMessage(ErrorMessage(text)))]

\* an error reported from inside the try (emit, then return the message)
WxError(events, sink, text) == WxExcept(events, sink, text)

Unbound == [kind |-> "unbound"]

\* what one step of an invocation leaves behind
WxStep(lat, lon, resolved, requests, events, result, pc) ==
    [lat |-> lat, lon |-> lon, resolved |-> resolved, requests |-> requests,
     events |-> events, result |-> result, pc |-> pc]

\* Lines 317-332: the device coordinates of __metadata__, taken when the
\* location is empty.  This runs before the try: what raises here leaves the
\* entry point.
DeviceCoordinates(loc, meta, sink, rev) ==
    LET ml == MetaLocation(meta)
        m == IF loc = <<>> /\ ml # NoText /\ ml # <<>>
             THEN MatchMetaLocation(ml)
             ELSE [matched |-> FALSE, lat |-> <<>>, long |-> <<>>]
        la == ParseFloat(m.lat)
        lo == ParseFloat(m.long)
        req == <<ReverseRequest(la.value, lo.value)>>
    IN  IF ~m.matched
        THEN WxStep(NoNumber, NoNumber, Unbound, <<>>, <<>>, Pending, "locate")
        ELSE IF ~la.ok
        THEN WxStep(NoNumber, NoNumber, Unbound, <<>>, <<>>, Raised("ValueError"), "done")
        ELSE IF ~lo.ok
        THEN WxStep(<<la.value>>, NoNumber, Unbound, <<>>, <<>>, Raised("ValueError"), "done")
        ELSE IF rev = "raise"
        THEN WxStep(<<la.value>>, <<lo.value>>, Unbound, req, <<>>,
                    Raised("ConnectionError"), "done")
        ELSE IF sink = "fails"
        THEN WxStep(<<la.value>>, <<lo.value>>, DisplayName(rev, la.value, lo.value), req,
                    <<>>, Raised("sink error"), "done")
        ELSE WxStep(<<la.value>>, <<lo.value>>, DisplayName(rev, la.value, lo.value), req,
                    Emit(<<>>, sink, WxStatus("Location resolved from metadata", FALSE)),
                    Pending, "locate")

WxInit ==
    /\ wx_user_valves = DefaultUserValves
    /\ wx_calls = 0
    /\ wx_pc = "idle"
    /\ wx_location = <<>>
    /\ wx_user = [kind |-> "absent", valves |-> <<>>]
    /\ wx_metadata = NoMetadata
    /\ wx_sink = "absent"
    /\ wx_latitude = NoNumber
    /\ wx_longitude = NoNumber
    /\ wx_resolved = Unbound
    /\ wx_speed_unit = None
    /\ wx_requests = <<>>
    /\ wx_events = <<>>
    /\ wx_result = Pending
    /\ wx_geo_response = NoGeo

\* get_current_weather, lines 314-332: a new invocation on the instance
WxBegin ==
    /\ wx_pc = "idle"
    /\ wx_calls < MaxCalls
    /\ \E loc \in Locations, u \in WxUsers, meta \in Metadatas, sink \in Sinks,
          rev \in ReverseOutcomes :
       \E o \in {DeviceCoordinates(loc, meta, sink, rev)} :
        /\ wx_calls' = wx_calls + 1
        /\ wx_location' = loc
        /\ wx_user' = u
        /\ wx_metadata' = meta
        /\ wx_sink' = sink
        /\ wx_user_valves' = AssignUserValves(u, wx_user_valves)
        /\ wx_latitude' = o.lat
        /\ wx_longitude' = o.lon
        /\ wx_resolved' = o.resolved
        /\ wx_requests' = o.requests
        /\ wx_events' = o.events
        /\ wx_result' = o.result
        /\ wx_pc' = o.pc
        /\ wx_speed_unit' = None
        /\ wx_geo_response' = NoGeo
    /\ UNCHANGED <<memVars, marVars, rpVars, brVars, mrVars, extVars>>

\* city_query and state_query of lines 347-352
CityQuery(loc) ==
    IF Contains(loc, ",") THEN Strip(Split(loc, ",")[1]) ELSE ReplaceSpaces(loc)

StateQuery(loc) ==
    IF Contains(loc, ",") THEN Strip(Split(loc, ",")[2]) ELSE NoText

\* "if state_query and re.match(...) and re.match(...)" (line 354)
LooksLikeCoordinates(loc) ==
    /\ StateQuery(loc) # NoText
    /\ StateQuery(loc) # <<>>
    /\ MatchDigits(CityQuery(loc))
    /\ MatchDigits(StateQuery(loc))

\* the end of a step inside the try that stops the invocation
WxStop(lat, lon, resolved, requests, ex) ==
    WxStep(lat, lon, resolved, requests, ex.events, ex.result, "done")

\* Lines 342-400: the location lookup, inside the try.
LocationLookup(geo, rev) ==
    LET loc == wx_location
        sink == wx_sink
        ev1 == Emit(wx_events, sink, WxStatus("Fetching location data", FALSE))
        la == ParseFloat(CityQuery(loc))
        lo == ParseFloat(StateQuery(loc))
        rreq == Append(wx_requests, ReverseRequest(la.value, lo.value))
        sreq == Append(wx_requests, SearchRequest(Quote(CityQuery(loc))))
        chosen == ChosenGeo(geo.results, StateQuery(loc))
        resolvedEv(events) ==
            Emit(events, sink, WxStatus("Location resolved. Fetching forecast data", FALSE))
    IN  IF sink = "fails"
        THEN \* the first emit raises, and so does the emit of the except clause
             WxStop(wx_latitude, wx_longitude, wx_resolved, wx_requests,
                    WxExcept(wx_events, sink, "sink error"))
        ELSE IF ~(Falsy(wx_latitude) /\ Falsy(wx_longitude))
        THEN WxStep(wx_latitude, wx_longitude, wx_resolved, wx_requests,
                    resolvedEv(wx_events), Pending, "fetch")
        ELSE IF LooksLikeCoordinates(loc)
        THEN IF ~la.ok
             THEN WxStop(wx_latitude, wx_longitude, wx_resolved, wx_requests,
                         WxExcept(ev1, sink, "ValueError"))
             ELSE IF ~lo.ok
             THEN WxStop(<<la.value>>, wx_longitude, wx_resolved, wx_requests,
                         WxExcept(ev1, sink, "ValueError"))
             ELSE IF rev = "raise"
             THEN WxStop(<<la.value>>, <<lo.value>>, wx_resolved, rreq,
                         WxExcept(ev1, sink, "ConnectionError"))
             ELSE WxStep(<<la.value>>, <<lo.value>>, DisplayName(rev, la.value, lo.value),
                         rreq,
                         resolvedEv(Emit(ev1, sink,
                             WxStatus("Location resolved from coordinates", FALSE))),
                         Pending, "fetch")
        ELSE IF geo.kind = "raise"
        THEN WxStop(wx_latitude, wx_longitude, wx_resolved, sreq,
                    WxExcept(ev1, sink, "ConnectionError"))
        ELSE IF geo.kind = "bad"
        THEN WxStop(wx_latitude, wx_longitude, wx_resolved, sreq,
                    WxError(ev1, sink, "Error: Could not get geolocation data."))
        ELSE IF geo.results = <<>>
        THEN WxStop(wx_latitude, wx_longitude, wx_resolved, sreq,
                    WxError(ev1, sink, "Error: Location not found."))
        ELSE WxStep(<<chosen.latitude>>, <<chosen.longitude>>,
                    ResolvedLocation(chosen, wx_user_valves), sreq,
                    resolvedEv(ev1), Pending, "fetch")

\* get_current_weather, lines 337-400
WxLocate ==
    /\ wx_pc = "locate"
    /\ \E geo \in GeoResponses, rev \in ReverseOutcomes :
       \E o \in {LocationLookup(geo, rev)} :
        /\ wx_speed_unit' = SpeedUnit(wx_user_valves.wind_speed_unit,
                                      wx_user_valves.use_imperial)
        /\ wx_latitude' = o.lat
        /\ wx_longitude' = o.lon
        /\ wx_resolved' = o.resolved
        /\ wx_requests' = o.requests
        /\ wx_events' = o.events
        /\ wx_result' = o.result
        /\ wx_pc' = o.pc
        /\ wx_geo_response' =
               IF o.requests # <<>> /\ o.requests[Len(o.requests)].api = "search"
               THEN geo ELSE NoGeo
    /\ UNCHANGED <<wx_user_valves, wx_calls, wx_location, wx_user, wx_metadata, wx_sink>>
    /\ UNCHANGED <<memVars, marVars, rpVars, brVars, mrVars, extVars>>

\* get_unit_symbols (lines 99-105)
GetUnitSymbols(use_imperial, calculated_speed_unit) ==
    [temp |-> IF use_imperial THEN "F" ELSE "C",
     wind |-> IF calculated_speed_unit = "" THEN "km/h" ELSE calculated_speed_unit,
     precip |-> IF use_imperial THEN "inch" ELSE "mm"]

\* the report of lines 528-564, as the settings it was built from
WeatherReport(uv) ==
    [tag |-> "report", location |-> wx_resolved,
     latitude |-> wx_latitude, longitude |-> wx_longitude,
     units |-> GetUnitSymbols(uv.use_imperial, wx_speed_unit),
     show_humidity |-> uv.show_humidity, show_precipitation |-> uv.show_precipitation,
     show_wind |-> uv.show_wind, show_visibility |-> uv.show_visibility,
     show_pressure |-> uv.show_pressure, show_cloud_cover |-> uv.show_cloud_cover,
     show_uv_index |-> uv.show_uv_index, show_sun_times |-> uv.show_sun_times]

\* Lines 403-564: the forecast request and the report, inside the try.
ForecastFetch(fc) ==
    LET sink == wx_sink
        req == Append(wx_requests,
                      ForecastRequest(wx_latitude[1], wx_longitude[1], wx_user_valves,
                                      wx_speed_unit))
        ev1 == Emit(wx_events, sink, WxStatus("Fetching forecast data", FALSE))
        ev2 == Emit(ev1, sink, WxStatus("Processing weather data", FALSE))
    IN  IF fc = "raise"
        THEN WxStop(wx_latitude, wx_longitude, wx_resolved, req,
                    WxExcept(ev1, sink, "ConnectionError"))
        ELSE IF fc = "bad"
        THEN WxStop(wx_latitude, wx_longitude, wx_resolved, req,
                    WxError(ev1, sink, "Error: Could not get weather data."))
        ELSE IF fc = "nocurrent"
        THEN WxStop(wx_latitude, wx_longitude, wx_resolved, req,
                    WxError(ev2, sink, "Error: Weather data not available."))
        ELSE WxStep(wx_latitude, wx_longitude, wx_resolved, req,
                    Emit(ev2, sink, WxStatus("Weather data retrieval complete.", TRUE)),
                    Returned(JsonMessage(WeatherReport(wx_user_valves))), "done")

\* get_current_weather, lines 403-564
WxFetch ==
    /\ wx_pc = "fetch"
    /\ \E fc \in ForecastOutcomes :
       \E o \in {ForecastFetch(fc)} :
        /\ wx_requests' = o.requests
        /\ wx_events' = o.events
        /\ wx_result' = o.result
        /\ wx_pc' = o.pc
    /\ UNCHANGED <<wx_user_valves, wx_calls, wx_location, wx_user, wx_metadata, wx_sink,
                   wx_latitude, wx_longitude, wx_resolved, wx_speed_unit, wx_geo_response>>
    /\ UNCHANGED <<memVars, marVars, rpVars, brVars, mrVars, extVars>>

\* the invocation is over: the instance keeps self.user_valves and nothing else
WxReturn ==
    /\ wx_pc = "done"
    /\ wx_pc' = "idle"
    /\ wx_location' = <<>>
    /\ wx_user' = [kind |-> "absent", valves |-> <<>>]
    /\ wx_metadata' = NoMetadata
    /\ wx_sink' = "absent"
    /\ wx_latitude' = NoNumber
    /\ wx_longitude' = NoNumber
    /\ wx_resolved' = Unbound
    /\ wx_speed_unit' = None
    /\ wx_requests' = <<>>
    /\ wx_events' = <<>>
    /\ wx_result' = Pending
    /\ wx_geo_response' = NoGeo
    /\ UNCHANGED <<wx_user_valves, wx_calls>>
    /\ UNCHANGED <<memVars, marVars, rpVars, brVars, mrVars, extVars>>

(***************************************************************************)
(* The marine tool: src/Tools/marine_weather.py                            *)
(***************************************************************************)
\* UserValves with the defaults of lines 114-138
DefaultMarineValves ==
    [includelocation |-> FALSE, tp |-> "1", tide |-> FALSE, lang |-> None,
     temp |-> "celsius", wind |-> "knots", units |-> "metric"]

\* settings a user can have saved
ImperialMarineValves ==
    [DefaultMarineValves EXCEPT !.temp = "fahrenheit", !.wind = "imperial",
                                !.units = "imperial", !.tp = "3"]
OddIntervalMarineValves == [DefaultMarineValves EXCEPT !.tp = "2"]
MarineValveChoices == {DefaultMarineValves, ImperialMarineValves, OddIntervalMarineValves}

MarUsers ==
    { [kind |-> "absent", valves |-> <<>>], [kind |-> "dict", valves |-> <<>>] }
    \cup { [kind |-> "dict", valves |-> <<v>>] : v \in MarineValveChoices }

\* "45.7deg, 4.8deg": coordinates written with the degree sign
LocDegrees == <<"4", "5", ".", "7", "deg", ",", " ", "4", ".", "8", "deg">>
MarLocations == Locations \cup {LocDegrees}

\* valid_tp (line 405)
ValidTp == {"1", "3", "6", "12", "24"}

\* "if self.user_valves.tp and self.user_valves.tp not in valid_tp" (line 406)
InvalidTpMut(uv) == uv.tp # None /\ uv.tp # "" /\ uv.tp \notin (ValidTp \cup {"2"})
InvalidTp(uv) == uv.tp # None /\ uv.tp # "" /\ uv.tp \notin ValidTp

\* the parts of lines 186-192: split on the first separator kind present
CoordinateParts(loc) ==
    IF Contains(loc, ",") THEN Split(loc, ",")
    ELSE IF Contains(loc, "/") THEN Split(loc, "/")
    ELSE Split(loc, "x")

\* lines 195-200: strip, and drop a final degree sign
StripDegree(part) ==
    LET t == Strip(part)
    IN  IF t # <<>> /\ t[Len(t)] = "deg" THEN Strip(SubSeq(t, 1, Len(t) - 1)) ELSE t

\* resolve_name (lines 152-166), when the request does not raise
MarDisplayName(rev, lat, lon) ==
    [kind |-> IF rev = "name" THEN "display_name" ELSE "coordinates",
     latitude |-> lat, longitude |-> lon]

\* what _resolve_location returns or raises
Resolved(lat, lon, name, requests, events) ==
    [raised |-> FALSE, error |-> "", lat |-> lat, lon |-> lon, name |-> name,
     requests |-> requests, events |-> events]
ResolveRaised(error, requests, events) ==
    [raised |-> TRUE, error |-> error, lat |-> 0, lon |-> 0, name |-> Unbound,
     requests |-> requests, events |-> events]

PlainName(loc) == [kind |-> "text", text |-> loc]

\* _resolve_location (lines 168-240)
ResolveLocation(loc, meta, sink, requests, events, geo, rev) ==
    LET ml == MetaLocation(meta)
        m == MatchMetaLocation(ml)
        mla == ParseFloat(m.lat)
        mlo == ParseFloat(m.long)
        isPair == Contains(loc, ",") \/ Contains(loc, "/") \/ Contains(loc, "x")
        parts == CoordinateParts(loc)
        la == ParseFloat(StripDegree(parts[1]))
        lo == ParseFloat(StripDegree(parts[2]))
        ev1 == Emit(events, sink, WxStatus("Fetching location data", FALSE))
        city0 == ReplaceSpaces(loc)
        city_query == IF Contains(city0, ",") THEN Strip(Split(city0, ",")[1]) ELSE city0
        state_query == IF Contains(city0, ",") THEN Strip(Split(city0, ",")[2]) ELSE NoText
        sreq == Append(requests, SearchRequest(Quote(city_query)))
        chosen == ChosenGeo(geo.results, state_query)
    IN  IF loc = <<>> /\ meta.kind = "dict" /\ ml # NoText /\ ml # <<>>
        THEN \* lines 173-182: the device coordinates
             IF ~m.matched THEN Resolved(0, 0, PlainName(loc), requests, events)
             ELSE IF ~mla.ok \/ ~mlo.ok THEN ResolveRaised("ValueError", requests, events)
             ELSE IF rev = "raise"
             THEN ResolveRaised("ConnectionError",
                                Append(requests, ReverseRequest(mla.value, mlo.value)), events)
             ELSE Resolved(mla.value, mlo.value,
                           MarDisplayName(rev, mla.value, mlo.value),
                           Append(requests, ReverseRequest(mla.value, mlo.value)), events)
        ELSE IF isPair /\ Len(parts) >= 2
        THEN \* lines 185-203: the location is read as coordinates
             IF ~la.ok \/ ~lo.ok THEN ResolveRaised("ValueError", requests, events)
             ELSE IF rev = "raise"
             THEN ResolveRaised("ConnectionError",
                                Append(requests, ReverseRequest(la.value, lo.value)), events)
             ELSE Resolved(la.value, lo.value, MarDisplayName(rev, la.value, lo.value),
                           Append(requests, ReverseRequest(la.value, lo.value)), events)
        ELSE \* lines 206-238: the geocoding search
             IF sink = "fails" THEN ResolveRaised("sink error", requests, events)
             ELSE IF geo.kind = "raise" THEN ResolveRaised("ConnectionError", sreq, ev1)
             ELSE IF geo.kind = "bad"
             THEN ResolveRaised("Could not get geolocation data.", sreq, ev1)
             ELSE IF geo.results = <<>> THEN ResolveRaised("Location not found.", sreq, ev1)
             ELSE Resolved(chosen.latitude, chosen.longitude,
                           [kind |-> "place", name |-> geo.results[1].name], sreq, ev1)

\* the except clause of lines 447-450
MarExcept(events, sink, text) ==
    IF sink = "fails"
    THEN [events |-> events, result |-> Raised("sink error")]
    ELSE [events |-> Emit(events, sink, WxStatus(text, TRUE)),
          result |-> Returned(JsonMessage(ErrorMessage(text)))]

MarInit ==
    /\ mar_user_valves = DefaultMarineValves
    /\ mar_calls = 0
    /\ mar_pc = "idle"
    /\ mar_location = <<>>
    /\ mar_user = [kind |-> "absent", valves |-> <<>>]
    /\ mar_metadata = NoMetadata
    /\ mar_sink = "absent"
    /\ mar_latitude = NoNumber
    /\ mar_longitude = NoNumber
    /\ mar_resolved = Unbound
    /\ mar_requests = <<>>
    /\ mar_events = <<>>
    /\ mar_result = Pending
    /\ mar_geo = NoGeo

\* get_marine_weather, lines 400-411: a new invocation, up to the check of tp
MarBegin ==
    /\ mar_pc = "idle"
    /\ mar_calls < MaxCalls
    /\ \E loc \in MarLocations, u \in MarUsers, meta \in Metadatas, sink \in Sinks :
       \E uv \in {AssignUserValves(u, mar_user_valves)} :
       \E ex \in {MarExcept(<<>>, sink, "Error: Invalid time interval.")} :
        /\ mar_calls' = mar_calls + 1
        /\ mar_location' = loc
        /\ mar_user' = u
        /\ mar_metadata' = meta
        /\ mar_sink' = sink
        /\ mar_user_valves' = uv
        /\ IF InvalidTp(uv)
           THEN /\ mar_events' = ex.events
                /\ mar_result' = ex.result
                /\ mar_pc' = "done"
           ELSE /\ mar_events' = <<>>
                /\ mar_result' = Pending
                /\ mar_pc' = "resolve"
    /\ UNCHANGED <<mar_latitude, mar_longitude, mar_resolved, mar_requests, mar_geo>>
    /\ UNCHANGED <<memVars, wxVars, rpVars, brVars, mrVars, extVars>>

\* get_marine_weather, lines 413-420: _resolve_location is called with the
\* location and the emitter only, so its __metadata__ is the default None
MarResolve ==
    /\ mar_pc = "resolve"
    /\ \E geo \in GeoResponses, rev \in ReverseOutcomes :
       \E r \in {ResolveLocation(mar_location, NoMetadata, mar_sink, mar_requests,
                                 mar_events, geo, rev)} :
       \E ex \in {MarExcept(r.events, mar_sink,
                            IF mar_sink = "fails" THEN "sink error" ELSE r.error)} :
        /\ mar_requests' = r.requests
        /\ mar_geo' = IF r.requests # <<>> /\ r.requests[Len(r.requests)].api = "search"
                      THEN geo ELSE NoGeo
        /\ IF r.raised \/ mar_sink = "fails"
           THEN /\ mar_events' = ex.events
                /\ mar_result' = ex.result
                /\ mar_pc' = "done"
                /\ UNCHANGED <<mar_latitude, mar_longitude, mar_resolved>>
           ELSE /\ mar_latitude' = <<r.lat>>
                /\ mar_longitude' = <<r.lon>>
                /\ mar_resolved' = r.name
                /\ mar_events' = Emit(r.events, mar_sink,
                                      WxStatus("Location resolved. Fetching forecast data",
                                               FALSE))
                /\ mar_result' = Pending
                /\ mar_pc' = "fetch"
    /\ UNCHANGED <<mar_user_valves, mar_calls, mar_location, mar_user, mar_metadata, mar_sink>>
    /\ UNCHANGED <<memVars, wxVars, rpVars, brVars, mrVars, extVars>>

\* _build_weather_url (lines 242-258)
MarineRequest(lat, lon, uv) ==
    [api |-> "marine", latitude |-> lat, longitude |-> lon,
     tp |-> IF uv.tp # None /\ uv.tp # "" THEN uv.tp ELSE None,
     lang |-> IF uv.lang # None /\ uv.lang # "" THEN uv.lang ELSE None,
     tide |-> IF uv.tide THEN "yes" ELSE "no",
     includeLocation |-> IF uv.includelocation THEN "yes" ELSE "no"]

\* the marine payloads: a transport error, a status other than 200, a payload
\* without weather days, a usable payload
MarineOutcomes == {"raise", "bad", "noweather", "ok"}

\* the report of lines 260-356, as the settings it was built from
MarineReport(uv) ==
    [tag |-> "report", temp |-> uv.temp, wind |-> uv.wind, units |-> uv.units,
     lang |-> uv.lang]

\* get_marine_weather, lines 422-445
MarFetch ==
    /\ mar_pc = "fetch"
    /\ \E fc \in MarineOutcomes :
       \E ex \in {MarExcept(mar_events, mar_sink,
                     CASE fc = "raise" -> "ConnectionError"
                       [] fc = "bad" -> "Error: Could not get weather data."
                       [] OTHER -> "Error: No weather data available.")} :
        /\ mar_requests' = Append(mar_requests,
                                  MarineRequest(mar_latitude[1], mar_longitude[1],
                                                mar_user_valves))
        /\ IF fc = "ok"
           THEN /\ mar_events' = Emit(mar_events, mar_sink,
                                      WxStatus("Weather data fetched successfully.", TRUE))
                /\ mar_result' = Returned(JsonMessage(MarineReport(mar_user_valves)))
           ELSE /\ mar_events' = ex.events
                /\ mar_result' = ex.result
        /\ mar_pc' = "done"
    /\ UNCHANGED <<mar_user_valves, mar_calls, mar_location, mar_user, mar_metadata, mar_sink,
                   mar_latitude, mar_longitude, mar_resolved, mar_geo>>
    /\ UNCHANGED <<memVars, wxVars, rpVars, brVars, mrVars, extVars>>

\* the invocation is over: the instance keeps self.user_valves and nothing else
MarReturn ==
    /\ mar_pc = "done"
    /\ mar_pc' = "idle"
    /\ mar_location' = <<>>
    /\ mar_user' = [kind |-> "absent", valves |-> <<>>]
    /\ mar_metadata' = NoMetadata
    /\ mar_sink' = "absent"
    /\ mar_latitude' = NoNumber
    /\ mar_longitude' = NoNumber
    /\ mar_resolved' = Unbound
    /\ mar_requests' = <<>>
    /\ mar_events' = <<>>
    /\ mar_result' = Pending
    /\ mar_geo' = NoGeo
    /\ UNCHANGED <<mar_user_valves, mar_calls>>
    /\ UNCHANGED <<memVars, wxVars, rpVars, brVars, mrVars, extVars>>

(***************************************************************************)
(* weather_forecast.py: the forecast stage of get_current_weather, from    *)
(* the resolution of the requested date and hour (lines 402-404) to the    *)
(* report (lines 442-564).  Instants are [day, hour, minute] records; the   *)
(* text "%Y-%m-%dT%H:00" of an instant is the instant with minute 0, and    *)
(* the entries of the payload's hourly "time" list are instants as well.   *)
(***************************************************************************)
Days == {1, 2}
Hours == 10..13
Minutes == {0, 30}
Instants == [day : Days, hour : Hours, minute : Minutes]

\* the date and hour arguments
DateTexts == { <<>>, <<"d", "e", "m", "a", "i", "n">> }
HourTexts == { <<>>, <<"9", "h">>, <<"à", " ", "1", "2", "h">>, <<"n", "o", "o", "n">> }

\* datetime.now() of line 47
Anchors == {i \in Instants : i.day = 1 /\ i.hour \in {11, 12}}

\* parse_time_string (lines 34-42): the regex \s*à?\s*(\d{1,2})h, case ignored
ParseTimeString(time_str) ==
    LET s == Strip(time_str)
        a == IF s # <<>> /\ s[1] \in {"à", "À"} THEN Tail(s) ELSE s
        b == LStrip(a)
        two == Len(b) >= 3 /\ b[1] \in Digits /\ b[2] \in Digits /\ b[3] \in {"h", "H"}
        one == Len(b) >= 2 /\ b[1] \in Digits /\ b[2] \in {"h", "H"}
    IN  IF time_str = <<>> THEN NoText
        ELSE IF two THEN <<b[1], b[2], ":", "0", "0">>
        ELSE IF one THEN <<b[1], ":", "0", "0">>
        ELSE s

\* combined_str of lines 48-52
CombinedStr(date_str, hour_str) ==
    (IF date_str # <<>> THEN date_str ELSE <<>>)
        \o (IF hour_str # <<>> THEN <<" ">> \o ParseTimeString(hour_str) ELSE <<>>)

\* dateparser.parse (line 54): nothing for the empty text; for any other text
\* the library answers nothing or an instant
DateParser(text) ==
    IF text = <<>> THEN {<<>>}
    ELSE {<<>>} \cup {<<i>> : i \in {j \in Instants : j.hour = 13}}

\* resolve_datetime (lines 45-55): "parsed or base"
ResolveDatetime(base, parsed) == IF parsed # <<>> THEN parsed[1] ELSE base

\* strftime("%Y-%m-%dT%H:00") of line 404
StrftimeHourMut(dt) == dt
StrftimeHour(dt) == [dt EXCEPT !.minute = 0]

\* get_weather_code_description (lines 64-96)
WeatherCodeMapping ==
    [code \in {0, 1, 2, 3, 45, 48, 51, 53, 55, 56, 57, 61, 63, 65, 66, 67, 71, 73, 75,
               77, 80, 81, 82, 85, 86, 95, 96, 99} |->
        CASE code = 0 -> "Clear sky"
          [] code = 1 -> "Mainly clear"
          [] code = 2 -> "Partly cloudy"
          [] code = 3 -> "Overcast"
          [] code = 45 -> "Fog"
          [] code = 48 -> "Depositing rime fog"
          [] code = 51 -> "Light drizzle"
          [] code = 53 -> "Moderate drizzle"
          [] code = 55 -> "Dense drizzle"
          [] code = 56 -> "Light freezing drizzle"
          [] code = 57 -> "Dense freezing drizzle"
          [] code = 61 -> "Slight rain"
          [] code = 63 -> "Moderate rain"
          [] code = 65 -> "Heavy rain"
          [] code = 66 -> "Light freezing rain"
          [] code = 67 -> "Heavy freezing rain"
          [] code = 71 -> "Slight snowfall"
          [] code = 73 -> "Moderate snowfall"
          [] code = 75 -> "Heavy snowfall"
          [] code = 77 -> "Snow grains"
          [] code = 80 -> "Slight rain showers"
          [] code = 81 -> "Moderate rain showers"
          [] code = 82 -> "Violent rain showers"
          [] code = 85 -> "Slight snow showers"
          [] code = 86 -> "Heavy snow showers"
          [] code = 95 -> "Thunderstorm"
          [] code = 96 -> "Thunderstorm with slight hail"
          [] code = 99 -> "Thunderstorm with heavy hail"]

GetWeatherCodeDescription(code) ==
    IF code \in DOMAIN WeatherCodeMapping THEN WeatherCodeMapping[code]
    ELSE "Unknown weather"

\* a line of the report: its label and what it shows
Line(label, value) == [label |-> label, value |-> value]

\* build_weather_report with the wind lines outside their toggle
BuildWeatherReportMut(data, units) ==
    [raised |-> FALSE,
     lines |-> << Line("Weather for", <<data.location, data.latitude, data.longitude>>),
                  Line("Time", data.time),
                  Line("Temperature", <<data.temperature, units.temp>>),
                  Line("Feels Like", <<data.apparent_temperature, units.temp>>),
                  Line("Wind Speed", <<data.windspeed, units.wind>>),
                  Line("Wind Direction", data.winddirection),
                  Line("Weather", <<data.description, data.weathercode>>) >>]

\* build_weather_report (lines 150-192).  Optional values are <<>> (None) or
\* <<v>>; the format :.1f of lines 155-156 and 161 raises on None.
BuildWeatherReport(data, units) ==
    LET head == << Line("Weather for", <<data.location, data.latitude, data.longitude>>),
                   Line("Time", data.time),
                   Line("Temperature", <<data.temperature, units.temp>>),
                   Line("Feels Like", <<data.apparent_temperature, units.temp>>) >>
        humidity ==
            IF data.show_humidity
            THEN <<Line("Relative Humidity", data.humidity)>>
                 \o (IF data.dew_point # <<>>
                     THEN <<Line("Dew Point", <<data.dew_point, units.temp>>)>> ELSE <<>>)
            ELSE <<>>
        precipitation ==
            IF data.show_precipitation
            THEN <<Line("Precipitation", <<data.precipitation, units.precip>>)>>
                 \o (IF data.precip_probability # <<>>
                     THEN <<Line("Precipitation Probability", data.precip_probability)>>
                     ELSE <<>>)
            ELSE <<>>
        wind ==
            IF data.show_wind
            THEN << Line("Wind Speed", <<data.windspeed, units.wind>>),
                    Line("Wind Direction", data.winddirection) >>
            ELSE <<>>
        visibility ==
            IF data.show_visibility /\ data.visibility # <<>>
            THEN <<Line("Visibility", data.visibility)>> ELSE <<>>
        pressure ==
            IF data.show_pressure /\ data.pressure # <<>>
            THEN <<Line("Pressure", data.pressure)>> ELSE <<>>
        cloud_cover ==
            IF data.show_cloud_cover /\ data.cloud_cover # <<>>
            THEN <<Line("Cloud Cover", data.cloud_cover)>> ELSE <<>>
        uv_index ==
            IF data.show_uv_index /\ data.uv_index # <<>>
            THEN <<Line("UV Index (max)", data.uv_index)>> ELSE <<>>
        sun_times ==
            IF data.show_sun_times /\ data.sunrise # <<>> /\ data.sunset # <<>>
            THEN <<Line("Sunrise", data.sunrise), Line("Sunset", data.sunset)>> ELSE <<>>
        condition == <<Line("Weather", <<data.description, data.weathercode>>)>>
    IN  IF data.temperature = <<>> \/ data.apparent_temperature = <<>>
        THEN [raised |-> TRUE, lines |-> <<>>]
        ELSE [raised |-> FALSE,
              lines |-> head \o humidity \o precipitation \o wind \o visibility
                        \o pressure \o cloud_cover \o uv_index \o sun_times \o condition]

\* values of the payload's "weathercode" series: an int, a float or null
IntCode(n) == [type |-> "int", value |-> n]
FloatCode(n) == [type |-> "float", value |-> n]
NullCode == [type |-> "null", value |-> 0]
CodeValues == {IntCode(3), IntCode(4), FloatCode(3), NullCode}

At(d, h, m) == [day |-> d, hour |-> h, minute |-> m]

\* the payload's hourly "time" list
TimeLists ==
    { <<>>,
      <<At(1, 11, 0), At(1, 12, 0)>>,
      <<At(1, 10, 0), At(1, 11, 0), At(1, 13, 0)>>,
      <<At(1, 12, 30), At(1, 12, 45), At(2, 13, 0)>>,
      <<At(2, 13, 0)>> }

\* A series of the payload's "hourly" object is <<>> when the key is absent and
\* <<list>> when present.  The weathercode list has the length of "time", or is
\* one entry long; apparent_temperature is taken to be shaped as temperature_2m.
HourlyPayloads ==
    { [time |-> t, temperature_2m |-> tm, weathercode |-> wc] :
        t \in TimeLists,
        tm \in {<<>>, << << <<18>>, <<19>>, <<20>> >> >>, << << <<>>, <<>>, <<>> >> >>},
        wc \in {<<>>, << <<IntCode(3)>> >>}
               \cup { << [i \in 1..3 |-> v] >> : v \in CodeValues } }

\* extract_hourly_value (lines 108-111); index counts from 1 here
ExtractHourlyValue(series, idx, default) ==
    LET values == IF series = <<>> THEN <<default>> ELSE series[1]
    IN  IF idx <= Len(values) THEN values[idx] ELSE default

\* the lookup with min() in place of max() at line 460
HourlyIndexMut(hourly_times, target) ==
    LET exact == {i \in 1..Len(hourly_times) : hourly_times[i] = target}
        prefix == {i \in 1..Len(hourly_times) :
                      hourly_times[i].day = target.day /\ hourly_times[i].hour = target.hour}
    IN  IF exact # {} THEN <<CHOOSE i \in exact : \A j \in exact : i <= j>>
        ELSE IF prefix # {} THEN <<CHOOSE i \in prefix : \A j \in prefix : i <= j>>
        ELSE <<>>

\* lines 456-460: the position of the target hour in hourly_times, <<>> when
\* max() is given nothing (ValueError)
HourlyIndex(hourly_times, target) ==
    LET exact == {i \in 1..Len(hourly_times) : hourly_times[i] = target}
        prefix == {i \in 1..Len(hourly_times) :
                      hourly_times[i].day = target.day /\ hourly_times[i].hour = target.hour}
    IN  IF exact # {} THEN <<CHOOSE i \in exact : \A j \in exact : i <= j>>
        ELSE IF prefix # {} THEN <<CHOOSE i \in prefix : \A j \in prefix : i >= j>>
        ELSE <<>>

\* lines 499-501: description is assigned only for an int code >= 0
Description(weathercode) ==
    IF weathercode.type = "int" /\ weathercode.value >= 0
    THEN <<GetWeatherCodeDescription(weathercode.value)>>
    ELSE <<>>

\* the place, as resolved before this stage
StagePlace == [kind |-> "coordinates", latitude |-> 457, longitude |-> 48]

\* weather_info of lines 468-557 (daily: whether the payload has the daily
\* series asked for)
WeatherInfo(uv, hd, idx, target, daily) ==
    [location |-> StagePlace, latitude |-> 457, longitude |-> 48,
     time |-> target,
     temperature |-> ExtractHourlyValue(hd.temperature_2m, idx, <<0>>),
     apparent_temperature |-> ExtractHourlyValue(hd.temperature_2m, idx, <<0>>),
     humidity |-> <<60>>, precipitation |-> <<0>>,
     windspeed |-> <<12>>, winddirection |-> <<180>>,
     weathercode |-> ExtractHourlyValue(hd.weathercode, idx, IntCode(0 - 1)),
     description |-> Description(ExtractHourlyValue(hd.weathercode, idx, IntCode(0 - 1)))[1],
     dew_point |-> IF uv.show_humidity THEN <<9>> ELSE <<>>,
     precip_probability |-> IF uv.show_precipitation THEN <<10>> ELSE <<>>,
     visibility |-> IF uv.show_visibility THEN <<9000>> ELSE <<>>,
     pressure |-> IF uv.show_pressure THEN <<1013>> ELSE <<>>,
     cloud_cover |-> IF uv.show_cloud_cover THEN <<40>> ELSE <<>>,
     uv_index |-> IF uv.show_uv_index /\ daily THEN <<5>> ELSE <<>>,
     sunrise |-> IF uv.show_sun_times /\ daily THEN <<6>> ELSE <<>>,
     sunset |-> IF uv.show_sun_times /\ daily THEN <<21>> ELSE <<>>,
     show_humidity |-> uv.show_humidity, show_precipitation |-> uv.show_precipitation,
     show_wind |-> uv.show_wind, show_visibility |-> uv.show_visibility,
     show_pressure |-> uv.show_pressure, show_cloud_cover |-> uv.show_cloud_cover,
     show_uv_index |-> uv.show_uv_index, show_sun_times |-> uv.show_sun_times]

\* what the stage leaves behind
StageStep(idx, events, result, pc) ==
    [index |-> idx, events |-> events, result |-> result, pc |-> pc]

StageStop(idx, ex) == StageStep(idx, ex.events, ex.result, "done")

\* Lines 442-460: the payload is read and the hourly index looked up.
SelectHour(hd) ==
    LET ev == Emit(rp_events, rp_sink, WxStatus("Processing weather data", FALSE))
        idx == HourlyIndex(hd.time, target_hour_str)
    IN  IF idx = <<>>
        THEN StageStop(<<>>, WxExcept(ev, rp_sink, "ValueError"))
        ELSE StageStep(idx, ev, Pending, "report")

\* Lines 462-564: the values of the selected hour and the report.
ReportHour(daily) ==
    LET hd == hourly_data
        idx == rp_index[1]
        weathercode == ExtractHourlyValue(hd.weathercode, idx, IntCode(0 - 1))
        units == GetUnitSymbols(rp_valves.use_imperial,
                                SpeedUnit(rp_valves.wind_speed_unit, rp_valves.use_imperial))
        built == BuildWeatherReport(
                     WeatherInfo(rp_valves, hd, idx, target_hour_str, daily), units)
    IN  IF idx > Len(IF hd.temperature_2m = <<>> THEN <<"?">> ELSE hd.temperature_2m[1])
        THEN \* the list of line 465 has no such position
             StageStop(rp_index, WxExcept(rp_events, rp_sink, "IndexError"))
        ELSE IF Description(weathercode) = <<>>
        THEN \* line 540 reads description, which was never assigned
             StageStop(rp_index, WxExcept(rp_events, rp_sink, "UnboundLocalError"))
        ELSE IF built.raised
        THEN StageStop(rp_index, WxExcept(rp_events, rp_sink, "TypeError"))
        ELSE StageStep(rp_index,
                       Emit(rp_events, rp_sink,
                            WxStatus("Weather data retrieval complete.", TRUE)),
                       Returned(JsonMessage([tag |-> "report", lines |-> built.lines])),
                       "done")

StageInit ==
    /\ rp_pc = "idle"
    /\ rp_valves = DefaultUserValves
    /\ rp_sink = "absent"
    /\ rp_date = <<>>
    /\ rp_hour = <<>>
    /\ rp_base = At(1, 11, 0)
    /\ combined_str = <<>>
    /\ rp_parsed = <<>>
    /\ target_hour_str = At(1, 11, 0)
    /\ hourly_data = [time |-> <<>>, temperature_2m |-> <<>>, weathercode |-> <<>>]
    /\ rp_index = <<>>
    /\ rp_events = <<>>
    /\ rp_result = Pending

\* get_current_weather, lines 402-404.  The sink has accepted the events of
\* the stages before, so it is absent or accepting here.
RpResolve ==
    /\ rp_pc = "idle"
    /\ \E uv \in UserValveChoices, sink \in {"absent", "accepts"},
          d \in DateTexts, h \in HourTexts, b \in Anchors :
       \E p \in DateParser(CombinedStr(d, h)) :
        /\ rp_valves' = uv
        /\ rp_sink' = sink
        /\ rp_date' = d
        /\ rp_hour' = h
        /\ rp_base' = b
        /\ combined_str' = CombinedStr(d, h)
        /\ rp_parsed' = p
        /\ target_hour_str' = StrftimeHour(ResolveDatetime(b, p))
    /\ rp_pc' = "select"
    /\ UNCHANGED <<hourly_data, rp_index, rp_events, rp_result>>
    /\ UNCHANGED <<memVars, wxVars, marVars, brVars, mrVars, extVars>>

\* get_current_weather, lines 442-460
RpSelect ==
    /\ rp_pc = "select"
    /\ \E hd \in HourlyPayloads :
       \E o \in {SelectHour(hd)} :
        /\ hourly_data' = hd
        /\ rp_index' = o.index
        /\ rp_events' = o.events
        /\ rp_result' = o.result
        /\ rp_pc' = o.pc
    /\ UNCHANGED <<rp_valves, rp_sink, rp_date, rp_hour, rp_base, combined_str, rp_parsed,
                   target_hour_str>>
    /\ UNCHANGED <<memVars, wxVars, marVars, brVars, mrVars, extVars>>

\* get_current_weather, lines 462-564
RpReport ==
    /\ rp_pc = "report"
    /\ \E daily \in BOOLEAN :
       \E o \in {ReportHour(daily)} :
        /\ rp_index' = o.index
        /\ rp_events' = o.events
        /\ rp_result' = o.result
        /\ rp_pc' = o.pc
    /\ UNCHANGED <<rp_valves, rp_sink, rp_date, rp_hour, rp_base, combined_str, rp_parsed,
                   target_hour_str, hourly_data>>
    /\ UNCHANGED <<memVars, wxVars, marVars, brVars, mrVars, extVars>>

(***************************************************************************)
(* build_weather_report as a function of its arguments.                    *)
(***************************************************************************)
ShowToggles == {"show_humidity", "show_precipitation", "show_wind", "show_visibility",
                "show_pressure", "show_cloud_cover", "show_uv_index", "show_sun_times"}

OptionalValues == {"dew_point", "precip_probability", "visibility", "pressure",
                   "cloud_cover", "uv_index", "sunrise", "sunset"}

\* the data argument: every combination of toggles; the optional values all
\* present, all None, or all but one present; the temperature present or None
ReportData ==
    { [location |-> StagePlace, latitude |-> 457, longitude |-> 48,
       time |-> At(1, 12, 0),
       temperature |-> temp, apparent_temperature |-> temp,
       humidity |-> <<60>>, precipitation |-> <<0>>,
       windspeed |-> <<12>>, winddirection |-> <<180>>,
       weathercode |-> IntCode(3), description |-> "Overcast",
       dew_point |-> IF "dew_point" \in none THEN <<>> ELSE <<9>>,
       precip_probability |-> IF "precip_probability" \in none THEN <<>> ELSE <<10>>,
       visibility |-> IF "visibility" \in none THEN <<>> ELSE <<9000>>,
       pressure |-> IF "pressure" \in none THEN <<>> ELSE <<1013>>,
       cloud_cover |-> IF "cloud_cover" \in none THEN <<>> ELSE <<40>>,
       uv_index |-> IF "uv_index" \in none THEN <<>> ELSE <<5>>,
       sunrise |-> IF "sunrise" \in none THEN <<>> ELSE <<6>>,
       sunset |-> IF "sunset" \in none THEN <<>> ELSE <<21>>,
       show_humidity |-> "show_humidity" \in on,
       show_precipitation |-> "show_precipitation" \in on,
       show_wind |-> "show_wind" \in on,
       show_visibility |-> "show_visibility" \in on,
       show_pressure |-> "show_pressure" \in on,
       show_cloud_cover |-> "show_cloud_cover" \in on,
       show_uv_index |-> "show_uv_index" \in on,
       show_sun_times |-> "show_sun_times" \in on] :
        on \in SUBSET ShowToggles,
        none \in {{}, OptionalValues} \cup {{v} : v \in OptionalValues},
        temp \in {<<>>, <<18>>} }

NoReport == [raised |-> FALSE, lines |-> <<>>]

BuildIdle ==
    /\ br_pc = "idle"
    /\ br_data = CHOOSE d \in ReportData : TRUE
    /\ report_lines = NoReport

\* the arguments of a call of build_weather_report
BuildInit ==
    /\ br_pc = "call"
    /\ br_data \in ReportData
    /\ report_lines = NoReport

\* build_weather_report (lines 150-192)
BuildReport ==
    /\ br_pc = "call"
    /\ \E use_imperial \in BOOLEAN :
          report_lines' = BuildWeatherReport(br_data, GetUnitSymbols(use_imperial, "kmh"))
    /\ br_pc' = "built"
    /\ UNCHANGED br_data
    /\ UNCHANGED <<memVars, wxVars, marVars, rpVars, mrVars, extVars>>

(***************************************************************************)
(* marine_weather.py: the report stage of get_marine_weather (lines        *)
(* 430-445) and _format_weather_report (lines 260-356).  The "time" of an   *)
(* hourly record is hhmm text without leading zeros ("0", "300", "1200"):   *)
(* it is kept as its number, as zfill(4) and int() agree on such texts.     *)
(* Dates are day numbers, today being day 1.                                *)
(***************************************************************************)
IsDigits(s) == s # <<>> /\ \A i \in 1..Len(s) : s[i] \in Digits

\* the hour argument: absent, "12h", "14h", "1200", "soon"
MarHourTexts == { <<>>, <<"1", "2", "h">>, <<"1", "4", "h">>, <<"1", "2", "0", "0">>,
                  <<"s", "o", "o", "n">> }

\* dateparser.parse(parse_time_string(hour)) of line 277, of which line 279
\* keeps the hour: the hour of an "HH:00" text; for a text of digits nothing
\* or its hour; nothing for any other text (<<>> is None)
ParsedTimes(hour) ==
    LET t == ParseTimeString(hour)
    IN  IF Len(t) = 5 /\ t[3] = ":" /\ IsDigits(SubSeq(t, 1, 2))
        THEN {<<DigitsValue(SubSeq(t, 1, 2))>>}
        ELSE IF IsDigits(t) THEN {<<>>, <<DigitsValue(t) \div 100>>}
        ELSE {<<>>}

\* the date argument and parsed_date of line 438: today for no date; for a
\* date text nothing, or a day (day 3 is beyond the forecast days)
ParsedDates(date) == IF date = <<>> THEN {<<1>>} ELSE {<<>>, <<1>>, <<2>>, <<3>>}

\* the "hourly" list of a day of the payload, by the times of its records
HourlyLists == { <<>>, <<1000, 1100, 1300>>, <<1500, 1300, 1000>>, <<0, 1200, 1400>>, <<900>> }

\* data["data"]["weather"]: no day, day 1, or days 1 and 2
WeatherDays ==
    {<<>>} \cup { <<[date |-> 1, hourly |-> h]>> : h \in HourlyLists }
           \cup { <<[date |-> 1, hourly |-> h1], [date |-> 2, hourly |-> h2]>> :
                    h1 \in HourlyLists, h2 \in {<<>>, <<0, 1200, 1400>>} }

\* user_hour_str of lines 277-281, as a number when it is one: the regex of
\* line 281 is r"\\D" (a backslash, then D), which removes nothing of hour
UserHourStr(hour, parsed_time) ==
    IF parsed_time # <<>> THEN [number |-> TRUE, value |-> parsed_time[1] * 100]
    ELSE IF IsDigits(hour) THEN [number |-> TRUE, value |-> DigitsValue(hour)]
    ELSE [number |-> FALSE, value |-> 0]

\* line 283 (and 291): the records of that time, in the order of the payload
RECURSIVE MatchedHours(_, _)
MatchedHours(selected_hours, time) ==
    IF selected_hours = <<>> THEN <<>>
    ELSE (IF Head(selected_hours) = time THEN <<time>> ELSE <<>>)
         \o MatchedHours(Tail(selected_hours), time)

\* lines 285-288: the smallest time after the requested one, else the
\* greatest, else None
FallbackTimeMut(all_times, requested) ==
    LET later == {t \in all_times : t > requested}
    IN  IF later # {} THEN <<CHOOSE t \in later : \A u \in later : t >= u>>
        ELSE IF all_times # {} THEN <<CHOOSE t \in all_times : \A u \in all_times : t >= u>>
        ELSE <<>>
FallbackTime(all_times, requested) ==
    LET later == {t \in all_times : t > requested}
    IN  IF later # {} THEN <<CHOOSE t \in later : \A u \in later : t <= u>>
        ELSE IF all_times # {} THEN <<CHOOSE t \in all_times : \A u \in all_times : t >= u>>
        ELSE <<>>

\* lines 275-292: the hourly records of a day that are reported
SelectedHours(hourly, hour, parsed_time) ==
    LET user_hour_str == UserHourStr(hour, parsed_time)
        exact == IF user_hour_str.number
                 THEN MatchedHours(hourly, user_hour_str.value) ELSE <<>>
        all_times == {hourly[i] : i \in 1..Len(hourly)}
        fallback_time == FallbackTime(all_times, user_hour_str.value)
    IN  IF hour = <<>> THEN [raised |-> FALSE, hours |-> hourly]
        ELSE IF exact # <<>> THEN [raised |-> FALSE, hours |-> exact]
        ELSE IF all_times = {} THEN [raised |-> FALSE, hours |-> <<>>]
        ELSE IF ~user_hour_str.number THEN [raised |-> TRUE, hours |-> <<>>]
        ELSE [raised |-> FALSE, hours |-> MatchedHours(hourly, fallback_time[1])]

\* lines 294-354: the block of one hourly record
HourBlock(date, time, uv) ==
    [kind |-> "hour", date |-> date, time |-> time,
     temp_unit |-> IF uv.temp = "fahrenheit" THEN "F"
                   ELSE IF uv.temp = "kelvin" THEN "K" ELSE "C",
     wind_unit |-> IF uv.wind = "imperial" THEN "mph"
                   ELSE IF uv.wind = "knots" THEN "knots" ELSE "km/h",
     dist_unit |-> IF uv.units = "imperial" THEN "miles" ELSE "m"]

\* lines 272-273: the two lines that open a day
DayBlock(date) == [kind |-> "day", date |-> date]

\* _format_weather_report (lines 260-356)
RECURSIVE FormatWeatherReport(_, _, _, _, _)
FormatWeatherReport(weather_days, parsed_date, hour, parsed_time, uv) ==
    IF weather_days = <<>> THEN [raised |-> FALSE, report |-> <<>>]
    ELSE LET day == Head(weather_days)
             sel == SelectedHours(day.hourly, hour, parsed_time)
             rest == FormatWeatherReport(Tail(weather_days), parsed_date, hour,
                                         parsed_time, uv)
         IN  IF parsed_date # <<>> /\ parsed_date[1] # day.date THEN rest
             ELSE IF sel.raised \/ rest.raised THEN [raised |-> TRUE, report |-> <<>>]
             ELSE [raised |-> FALSE,
                   report |-> <<DayBlock(day.date)>>
                              \o [i \in 1..Len(sel.hours) |->
                                     HourBlock(day.date, sel.hours[i], uv)]
                              \o rest.report]

\* Lines 430-445: the payload is checked, the date parsed, the report built.
MarineReportStage(weather_days, parsed_date, hour, parsed_time, uv, sink) ==
    LET built == FormatWeatherReport(weather_days, parsed_date, hour, parsed_time, uv)
    IN  IF weather_days = <<>>
        THEN MarExcept(<<>>, sink, "Error: No weather data available.")
        ELSE IF built.raised
        THEN MarExcept(<<>>, sink, "ValueError")
        ELSE [events |-> Emit(<<>>, sink,
                              WxStatus("Weather data fetched successfully.", TRUE)),
              result |-> Returned(JsonMessage([tag |-> "report",
                                               report |-> built.report]))]

MarStageInit ==
    /\ mr_pc = "idle"
    /\ mr_valves = DefaultMarineValves
    /\ mr_sink = "absent"
    /\ mr_hour = <<>>
    /\ mr_parsed_time = <<>>
    /\ mr_parsed_date = <<>>
    /\ mr_weather_days = <<>>
    /\ mr_events = <<>>
    /\ mr_result = Pending

\* the payload has arrived (status 200) and the arguments are known.  The
\* sink has accepted the events of the stages before.
MrPayload ==
    /\ mr_pc = "idle"
    /\ mr_valves' \in MarineValveChoices
    /\ mr_sink' \in {"absent", "accepts"}
    /\ mr_hour' \in MarHourTexts
    /\ mr_parsed_time' \in (IF mr_hour' = <<>> THEN {<<>>} ELSE ParsedTimes(mr_hour'))
    /\ \E date \in DateTexts : mr_parsed_date' \in ParsedDates(date)
    /\ mr_weather_days' \in WeatherDays
    /\ mr_pc' = "report"
    /\ UNCHANGED <<mr_events, mr_result>>
    /\ UNCHANGED <<memVars, wxVars, marVars, rpVars, brVars, extVars>>

\* get_marine_weather, lines 430-445
MrReport ==
    /\ mr_pc = "report"
    /\ \E o \in {MarineReportStage(mr_weather_days, mr_parsed_date, mr_hour, mr_parsed_time,
                                   mr_valves, mr_sink)} :
        /\ mr_events' = o.events
        /\ mr_result' = o.result
    /\ mr_pc' = "done"
    /\ UNCHANGED <<mr_valves, mr_sink, mr_hour, mr_parsed_time, mr_parsed_date, mr_weather_days>>
    /\ UNCHANGED <<memVars, wxVars, marVars, rpVars, brVars, extVars>>

(***************************************************************************)
(* The wind of an hourly record in the marine report: marine_weather.py,   *)
(* lines 315-323, and convert_unit.  The payload gives whole km/h and whole *)
(* miles; a computed speed is counted in millionths of its unit, so that   *)
(* the six-digit multipliers are exact.                                    *)
(***************************************************************************)
\* the greatest windspeedKmph of the payloads of the model
MaxWind == 60

\* the multipliers of lines 41, 43 and 323, in millionths
MphPerKmh == 621371
KnotsPerKmh == 539957

\* round(x, 1) of line 323, on millionths (a tie needs a product ending in
\* 50000, which no whole windspeedKmph below 50000 gives)
Round1(x) == ((x + 50000) \div 100000) * 100000

\* convert_unit (lines 31-58), for a speed in whole units; the result is in
\* millionths
ConvertUnit(value, from_unit, to_unit) ==
    IF from_unit = "kmh" /\ to_unit = "mph" THEN value * MphPerKmh
    ELSE IF from_unit = "kmh" /\ to_unit = "knots" THEN value * KnotsPerKmh
    ELSE value * 1000000

\* the hourly record of the payload: whole km/h, and the upstream's own miles
WindRecords ==
    { [windspeedKmph |-> k,
       windspeedMiles |-> (k * MphPerKmh + 500000) \div 1000000] :
        k \in 0..MaxWind }

\* UserValves.wind (lines 131-134)
WindSettings == {"knots", "imperial", "metric"}

\* lines 315-323 with the multiplier of miles in the knots branch
FormatWindMut(hourly, setting) ==
    IF setting = "imperial"
    THEN [wind |-> hourly.windspeedMiles * 1000000, wind_unit |-> "mph"]
    ELSE IF setting = "knots"
    THEN [wind |-> Round1(hourly.windspeedKmph * MphPerKmh), wind_unit |-> "knots"]
    ELSE [wind |-> hourly.windspeedKmph * 1000000, wind_unit |-> "km/h"]

\* lines 315-323: wind and wind_unit of the record
FormatWind(hourly, setting) ==
    IF setting = "imperial"
    THEN [wind |-> hourly.windspeedMiles * 1000000, wind_unit |-> "mph"]
    ELSE IF setting = "knots"
    THEN [wind |-> Round1(hourly.windspeedKmph * KnotsPerKmh), wind_unit |-> "knots"]
    ELSE [wind |-> hourly.windspeedKmph * 1000000, wind_unit |-> "km/h"]

NoWind == [wind |-> 0, wind_unit |-> None]

WindIdle ==
    /\ wd_pc = "idle"
    /\ wd_setting = "knots"
    /\ wd_hourly = [windspeedKmph |-> 0, windspeedMiles |-> 0]
    /\ wd_wind = NoWind

WindInit ==
    /\ wd_pc = "call"
    /\ wd_setting \in WindSettings
    /\ wd_hourly \in WindRecords
    /\ wd_wind = NoWind

\* the record is formatted
WindFormat ==
    /\ wd_pc = "call"
    /\ wd_wind' = FormatWind(wd_hourly, wd_setting)
    /\ wd_pc' = "shown"
    /\ UNCHANGED <<wd_setting, wd_hourly>>
    /\ UNCHANGED <<memVars, wxVars, marVars, rpVars, brVars, mrVars, flVars, ppVars, cwVars>>

(***************************************************************************)
(* The inlet filters: src/Filters/add_user_info.py and src/add_metadata.py *)
(***************************************************************************)
\* a text setting is given when it is neither None nor empty
TextGiven(t) == t # NoText /\ t # <<>>

AllDigits(s) == s # <<>> /\ \A i \in 1..Len(s) : s[i] \in Digits

\* datetime.strptime(text, fmt) for a format of three numbers around one
\* separator, the year first or last; <<>> when the text does not fit
Strptime(text, sep, year_first) ==
    LET parts == Split(text, sep)
        d == IF year_first THEN parts[3] ELSE parts[1]
        y == IF year_first THEN parts[1] ELSE parts[3]
    IN  IF /\ Len(parts) = 3
           /\ AllDigits(parts[1]) /\ AllDigits(parts[2]) /\ AllDigits(parts[3])
           /\ Len(d) <= 2 /\ Len(parts[2]) <= 2 /\ Len(y) = 4
           /\ DigitsValue(d) \in 1..31 /\ DigitsValue(parts[2]) \in 1..12
        THEN <<[day |-> DigitsValue(d), month |-> DigitsValue(parts[2]),
                year |-> DigitsValue(y)]>>
        ELSE <<>>

\* _format_date: the formats are tried in the order of the list
FormatDate(date_str) ==
    IF ~TextGiven(date_str) THEN <<>>
    ELSE LET t == Strip(date_str)
         IN  IF Strptime(t, "/", FALSE) # <<>> THEN Strptime(t, "/", FALSE)
             ELSE IF Strptime(t, "-", TRUE) # <<>> THEN Strptime(t, "-", TRUE)
             ELSE IF Strptime(t, "-", FALSE) # <<>> THEN Strptime(t, "-", FALSE)
             ELSE Strptime(t, ".", FALSE)

\* [x.strip() for x in text.split(",")]
StripAll(parts) == [i \in 1..Len(parts) |-> Strip(parts[i])]

\* Filter.UserValves: every field is None by default
NoFilterValves ==
    [date_de_naissance |-> NoText, aime |-> NoText, aime_pas |-> NoText,
     couleur_preferee |-> NoText, statut |-> NoText, surnom |-> NoText,
     gender |-> NoText, pronom |-> NoText, autres_infos |-> NoText]

FilterValveChoices ==
    { NoFilterValves,
      [NoFilterValves EXCEPT !.aime = <<"a", ",", " ", "b">>, !.statut = <<"P">>,
                             !.date_de_naissance = <<"2", "0", "0", "0", "-", "0", "2", "-", "0", "1">>],
      [NoFilterValves EXCEPT !.gender = <<"F">>, !.surnom = <<"X", ",", "T">>,
                             !.date_de_naissance = <<"1", ".", "2">>] }

\* __user__: absent, an empty dict, a dict without "valves", a dict with them
FilterUsers ==
    { [kind |-> "absent", name |-> None, valves |-> <<>>],
      [kind |-> "empty", name |-> None, valves |-> <<>>],
      [kind |-> "dict", name |-> "Ann", valves |-> <<>>] }
    \cup { [kind |-> "dict", name |-> "Bob", valves |-> <<v>>] : v \in FilterValveChoices }

\* "if __user__"
UserGiven(u) == u.kind = "dict"

\* the messages a body can carry; a body may have no "messages" key
UserMessage == [role |-> "user", content |-> "hi"]
OldSystemMessage == [role |-> "system", content |-> "be kind"]

Bodies ==
    { [model |-> "m", messages |-> ms] :
        ms \in { <<>>, << <<>> >>, << <<UserMessage>> >>,
                 << <<OldSystemMessage, UserMessage>> >> } }

\* self.user_valves after lines 97-101 of add_user_info.py: a user without
\* "valves" gets the defaults, and no user leaves the attribute as it was
AssignFilterValves(u, current) ==
    IF ~UserGiven(u) THEN current
    ELSE IF u.valves = <<>> THEN <<NoFilterValves>>
    ELSE u.valves

\* self.user_valves after lines 112-119 of add_metadata.py
AssignMetadataValves(u) ==
    IF ~UserGiven(u) THEN <<>>
    ELSE IF u.valves = <<>> THEN <<NoFilterValves>>
    ELSE u.valves

\* user_info (lines 105-126 of add_user_info.py, 123-129 of add_metadata.py)
UserInfo(u, uv, with_identity) ==
    (IF UserGiven(u)
     THEN << <<"Nom", u.name>>, <<"Email", None>>, <<"Role", None>> >> ELSE <<>>)
    \o (IF with_identity /\ uv # <<>> /\ TextGiven(uv[1].gender)
        THEN << <<"Genre", uv[1].gender>> >> ELSE <<>>)
    \o (IF with_identity /\ uv # <<>> /\ TextGiven(uv[1].pronom)
        THEN << <<"Pronoms", uv[1].pronom>> >> ELSE <<>>)
    \o (IF with_identity /\ uv # <<>> /\ TextGiven(uv[1].date_de_naissance)
        THEN << <<"Date de naissance", FormatDate(uv[1].date_de_naissance)>> >> ELSE <<>>)

\* the lines written for preferences: the entries that are not None, and
\* nothing when all are
Preferences(uv, with_date) ==
    IF uv = <<>> THEN <<>>
    ELSE (IF with_date /\ FormatDate(uv[1].date_de_naissance) # <<>>
          THEN << <<"Date de naissance", FormatDate(uv[1].date_de_naissance)>> >> ELSE <<>>)
         \o (IF TextGiven(uv[1].aime)
             THEN << <<"Aime", StripAll(Split(uv[1].aime, ","))>> >> ELSE <<>>)
         \o (IF TextGiven(uv[1].aime_pas)
             THEN << <<"N'aime pas", StripAll(Split(uv[1].aime_pas, ","))>> >> ELSE <<>>)
         \o (IF TextGiven(uv[1].couleur_preferee)
             THEN << <<"Couleur preferee", uv[1].couleur_preferee>> >> ELSE <<>>)

\* the system message: its lines up to the closing instruction
SystemMessage(title, u, uv, with_identity) ==
    [role |-> "system",
     content |-> [title |-> title,
                  user_info |-> UserInfo(u, uv, with_identity),
                  preferences |-> Preferences(uv, ~with_identity),
                  statut |-> IF TextGiven(uv[1].statut) THEN uv[1].statut ELSE <<>>,
                  surnom |-> IF TextGiven(uv[1].surnom)
                             THEN StripAll(Split(uv[1].surnom, ",")) ELSE <<>>,
                  autre |-> IF TextGiven(uv[1].autres_infos)
                            THEN uv[1].autres_infos ELSE <<>>]]

\* body.setdefault("messages", []).insert(0, message)
InsertFirst(body, message) ==
    [body EXCEPT !.messages =
        << <<message>> \o (IF body.messages = <<>> THEN <<>> ELSE body.messages[1]) >>]

\* inlet from the branch on self.user_valves on (lines 114-170 of
\* add_user_info.py, 132-200 of add_metadata.py): without user valves the
\* three message parts are never bound and reading them raises
Inlet(title, body, u, uv, with_identity) ==
    IF uv = <<>> THEN Raised("UnboundLocalError")
    ELSE Returned(InsertFirst(body, SystemMessage(title, u, uv, with_identity)))

FilterIdle ==
    /\ fl_calls = 0
    /\ fl_filter = None
    /\ fl_user = [kind |-> "absent", name |-> None, valves |-> <<>>]
    /\ fl_body = [model |-> "m", messages |-> <<>>]
    /\ ui_user_valves = <<>>
    /\ md_user_valves = <<>>
    /\ fl_result = Pending

\* Filter.inlet of add_user_info.py
InletUserInfo ==
    /\ fl_calls < MaxCalls
    /\ \E u \in FilterUsers, body \in Bodies :
        /\ fl_user' = u
        /\ fl_body' = body
        /\ ui_user_valves' = AssignFilterValves(u, ui_user_valves)
        /\ fl_result' = Inlet("USER INFO", body, u, AssignFilterValves(u, ui_user_valves), TRUE)
    /\ fl_filter' = "add_user_info"
    /\ fl_calls' = fl_calls + 1
    /\ UNCHANGED md_user_valves
    /\ UNCHANGED <<memVars, wxVars, marVars, rpVars, brVars, mrVars, wdVars, ppVars, cwVars>>

\* Filter.inlet of add_metadata.py
InletMetadata ==
    /\ fl_calls < MaxCalls
    /\ \E u \in FilterUsers, body \in Bodies :
        /\ fl_user' = u
        /\ fl_body' = body
        /\ md_user_valves' = AssignMetadataValves(u)
        /\ fl_result' = Inlet("SYSTEM INFO", body, u, AssignMetadataValves(u), FALSE)
    /\ fl_filter' = "add_metadata"
    /\ fl_calls' = fl_calls + 1
    /\ UNCHANGED ui_user_valves
    /\ UNCHANGED <<memVars, wxVars, marVars, rpVars, brVars, mrVars, wdVars, ppVars, cwVars>>

(***************************************************************************)
(* The vision pipe: src/Pipes/vision_multimodal.py.  A text content is a   *)
(* sequence of words; a content can also be None or a list of parts.       *)
(***************************************************************************)
\* Pipe.Valves: the defaults (lines 21-26), another text model, and one model
\* for both
PipeValveChoices ==
    { [TEXT_MODEL_ID |-> "mistral:7b", VISION_MODEL_ID |-> "gemma3:4b"],
      [TEXT_MODEL_ID |-> "llama3", VISION_MODEL_ID |-> "gemma3:4b"],
      [TEXT_MODEL_ID |-> "gemma3:4b", VISION_MODEL_ID |-> "gemma3:4b"] }

TextContent(words) == [kind |-> "str", words |-> words]
NoContent == [kind |-> "none", words |-> <<>>]
PartsContent == [kind |-> "list", words |-> <<>>]

PlainText == TextContent(<<"hello">>)
LinkText == TextContent(<<"see", " ", "http://x/a", ".PNG">>)
DataText == TextContent(<<" ", "data:image/", "png;base64">>)
FileText == TextContent(<<"my", ".jpg">>)

Message(role, content) == [role |-> role, content |-> content]

\* body["messages"]: <<>> when the body has no such key, <<list>> otherwise
MessageLists ==
    { <<>>, << <<>> >>,
      << <<Message("user", PlainText)>> >>,
      << <<Message("user", LinkText)>> >>,
      << <<Message("user", TextContent(<<>>))>> >>,
      << <<Message("user", NoContent)>> >>,
      << <<Message("user", PartsContent)>> >>,
      << <<Message("system", PlainText), Message("user", DataText)>> >>,
      << <<Message("user", FileText), Message("assistant", PlainText)>> >>,
      << <<Message("user", LinkText), Message("assistant", PlainText),
           Message("user", PlainText)>> >>,
      << <<Message("assistant", LinkText)>> >> }

\* what a model answers: a text, or an error raised
ModelAnswers == {"r1", "r2", "raise"}

\* str.lower() on the words of the model
LowerWord(w) == CASE w = ".PNG" -> ".png" [] OTHER -> w

\* img_extensions (line 89)
ImgExtensions == {".png", ".jpg", ".jpeg", ".gif", ".webp"}

\* the first word that is not blank
FirstWord(words) ==
    LET t == LStrip(words) IN IF t = <<>> THEN "" ELSE t[1]

\* _contains_image (lines 86-96) on a text; the URL pattern of line 90 only
\* matches texts that carry one of the extensions
ContainsImage(content) ==
    /\ content.kind = "str"
    /\ content.words # <<>>
    /\ \/ FirstWord(content.words) = "data:image/"
       \/ \E i \in 1..Len(content.words) : LowerWord(content.words[i]) \in ImgExtensions

\* the first user message of the list in place of the last
LastUserMessageMut(messages) ==
    LET users == {i \in 1..Len(messages) : messages[i].role = "user"}
    IN  IF users = {} THEN <<>>
        ELSE <<messages[CHOOSE i \in users : \A j \in users : i <= j]>>

\* lines 46-48: the most recent message whose role is "user" (<<>> is None)
LastUserMessage(messages) ==
    LET users == {i \in 1..Len(messages) : messages[i].role = "user"}
    IN  IF users = {} THEN <<>>
        ELSE <<messages[CHOOSE i \in users : \A j \in users : i >= j]>>

\* one call of generate_chat_completion, its answer pending
ModelCall(step, model, messages) ==
    [step |-> step, model |-> model, messages |-> messages, response |-> None]

\* lines 72-77
AnalysisMessage(vision_response) ==
    [role |-> "system", content |-> [kind |-> "analysis", words |-> <<vision_response>>]]

\* lines 83-84: the body is given the text model and sent
TextCall(body, settings) ==
    ModelCall("text", settings.TEXT_MODEL_ID,
              IF body.messages = <<>> THEN <<>> ELSE body.messages[1])

PipeIdle ==
    /\ pp_pc = "idle"
    /\ pp_valves = [TEXT_MODEL_ID |-> "mistral:7b", VISION_MODEL_ID |-> "gemma3:4b"]
    /\ pp_given = <<>>
    /\ pp_body = [model |-> "pipe", messages |-> <<>>]
    /\ pp_calls = <<>>
    /\ pp_result = Pending

\* pipe up to its first await (lines 44-66, or 44-84 without image)
PipeBegin ==
    /\ pp_pc = "idle"
    /\ \E v \in PipeValveChoices, ms \in MessageLists, has_id \in BOOLEAN :
       \E last \in {LastUserMessage(IF ms = <<>> THEN <<>> ELSE ms[1])} :
        /\ pp_valves' = v
        /\ pp_given' = ms
        /\ IF ~has_id
           THEN \* __user__["id"] of line 44
                /\ pp_result' = Raised("KeyError")
                /\ pp_pc' = "done"
                /\ pp_body' = [model |-> "pipe", messages |-> ms]
                /\ UNCHANGED pp_calls
           ELSE IF last # <<>> /\ last[1].content.kind = "list"
           THEN \* re.search of line 93 on a list
                /\ pp_result' = Raised("TypeError")
                /\ pp_pc' = "done"
                /\ pp_body' = [model |-> "pipe", messages |-> ms]
                /\ UNCHANGED pp_calls
           ELSE IF last # <<>> /\ ContainsImage(last[1].content)
           THEN /\ pp_calls' = <<ModelCall("vision", v.VISION_MODEL_ID,
                                           <<Message("system", TextContent(<<"VISION_PROMPT">>)), last[1]>>)>>
                /\ pp_body' = [model |-> "pipe", messages |-> ms]
                /\ pp_pc' = "vision"
                /\ UNCHANGED pp_result
           ELSE /\ pp_body' = [model |-> v.TEXT_MODEL_ID, messages |-> ms]
                /\ pp_calls' = <<TextCall([model |-> v.TEXT_MODEL_ID, messages |-> ms], v)>>
                /\ pp_pc' = "text"
                /\ UNCHANGED pp_result
    /\ UNCHANGED <<memVars, wxVars, marVars, rpVars, brVars, mrVars, wdVars, flVars, cwVars>>

\* the vision model answers (lines 64-84, up to the second await)
PipeVision ==
    /\ pp_pc = "vision"
    /\ \E a \in ModelAnswers :
        IF a = "raise"
        THEN /\ pp_calls' = [pp_calls EXCEPT ![1].response = a]
             /\ pp_result' = Raised("vision error")
             /\ pp_pc' = "done"
             /\ UNCHANGED pp_body
        ELSE \E b \in {[model |-> pp_valves.TEXT_MODEL_ID,
                        messages |-> <<Append(pp_body.messages[1], AnalysisMessage(a))>>]} :
             /\ pp_body' = b
             /\ pp_calls' = Append([pp_calls EXCEPT ![1].response = a],
                                   TextCall(b, pp_valves))
             /\ pp_pc' = "text"
             /\ UNCHANGED pp_result
    /\ UNCHANGED <<pp_valves, pp_given>>
    /\ UNCHANGED <<memVars, wxVars, marVars, rpVars, brVars, mrVars, wdVars, flVars, cwVars>>

\* the text model answers (line 84)
PipeText ==
    /\ pp_pc = "text"
    /\ \E a \in ModelAnswers :
        /\ pp_calls' = [pp_calls EXCEPT ![Len(pp_calls)].response = a]
        /\ pp_result' = IF a = "raise" THEN Raised("text error") ELSE Returned(a)
    /\ pp_pc' = "done"
    /\ UNCHANGED <<pp_valves, pp_given, pp_body>>
    /\ UNCHANGED <<memVars, wxVars, marVars, rpVars, brVars, mrVars, wdVars, flVars, cwVars>>

(***************************************************************************)
(* Two invocations of get_current_weather on one Tools instance            *)
(* (weather_forecast.py), each given a place name and its own user's       *)
(* valves.  An invocation runs from one awaited progress notification to   *)
(* the next without interruption; at an await the other one may run.       *)
(***************************************************************************)
Invocations == {1, 2}

\* the place the search answers with
FoundPlace == [name |-> "Pau", admin1 |-> <<"N", "A">>, country |-> "France"]

\* the settings the report is built from (lines 484-557)
ReportSettings(uv, calculated_speed_unit) ==
    [units |-> GetUnitSymbols(uv.use_imperial, calculated_speed_unit),
     show_humidity |-> uv.show_humidity, show_precipitation |-> uv.show_precipitation,
     show_wind |-> uv.show_wind, show_visibility |-> uv.show_visibility,
     show_pressure |-> uv.show_pressure, show_cloud_cover |-> uv.show_cloud_cover,
     show_uv_index |-> uv.show_uv_index, show_sun_times |-> uv.show_sun_times]

ConcurrentIdle ==
    /\ cw_user_valves = DefaultUserValves
    /\ cw_pc = [p \in Invocations |-> "idle"]
    /\ cw_own = [p \in Invocations |-> DefaultUserValves]
    /\ cw_speed_unit = [p \in Invocations |-> ""]
    /\ cw_resolved = [p \in Invocations |-> <<>>]
    /\ cw_request = [p \in Invocations |-> <<>>]
    /\ cw_report = [p \in Invocations |-> <<>>]

\* lines 314-344: the user's valves are stored on the instance, the speed
\* unit is computed, and the invocation awaits its first notification
CwBegin ==
    \E p \in Invocations, uv \in UserValveChoices :
        /\ cw_pc[p] = "idle"
        /\ cw_own' = [cw_own EXCEPT ![p] = uv]
        /\ cw_user_valves' = uv
        /\ cw_speed_unit' = [cw_speed_unit EXCEPT ![p] = SpeedUnit(uv.wind_speed_unit, uv.use_imperial)]
        /\ cw_pc' = [cw_pc EXCEPT ![p] = "lookup"]
        /\ UNCHANGED <<cw_resolved, cw_request, cw_report>>
        /\ UNCHANGED <<memVars, wxVars, marVars, rpVars, brVars, mrVars, wdVars, flVars, ppVars>>

\* lines 345-400: the place is looked up and named, up to the next await
CwLocate ==
    \E p \in Invocations :
        /\ cw_pc[p] = "lookup"
        /\ cw_resolved' = [cw_resolved EXCEPT ![p] = <<ResolvedLocation(FoundPlace, cw_user_valves)>>]
        /\ cw_pc' = [cw_pc EXCEPT ![p] = "request"]
        /\ UNCHANGED <<cw_user_valves, cw_own, cw_speed_unit, cw_request, cw_report>>
        /\ UNCHANGED <<memVars, wxVars, marVars, rpVars, brVars, mrVars, wdVars, flVars, ppVars>>

\* lines 402-432: the forecast request is built, up to the next await
CwRequest ==
    \E p \in Invocations :
        /\ cw_pc[p] = "request"
        /\ cw_request' = [cw_request EXCEPT
                             ![p] = <<ForecastRequest(<<433>>, <<0 - 4>>, cw_user_valves,
                                                      cw_speed_unit[p])>>]
        /\ cw_pc' = [cw_pc EXCEPT ![p] = "report"]
        /\ UNCHANGED <<cw_user_valves, cw_own, cw_speed_unit, cw_resolved, cw_report>>
        /\ UNCHANGED <<memVars, wxVars, marVars, rpVars, brVars, mrVars, wdVars, flVars, ppVars>>

\* lines 434-564: the forecast is fetched and the report built
CwReport ==
    \E p \in Invocations :
        /\ cw_pc[p] = "report"
        /\ cw_report' = [cw_report EXCEPT
                            ![p] = <<ReportSettings(cw_user_valves, cw_speed_unit[p])>>]
        /\ cw_pc' = [cw_pc EXCEPT ![p] = "done"]
        /\ UNCHANGED <<cw_user_valves, cw_own, cw_speed_unit, cw_resolved, cw_request>>
        /\ UNCHANGED <<memVars, wxVars, marVars, rpVars, brVars, mrVars, wdVars, flVars, ppVars>>

\* the added components before any use
ExtIdle == WindIdle /\ FilterIdle /\ PipeIdle /\ ConcurrentIdle

(***************************************************************************)
(* Specifications: one per tool, the other tools staying idle.             *)
(***************************************************************************)
MemIdle ==
    /\ memories = <<>>
    /\ store_calls = <<>>
    /\ valves = [threshold |-> [num |-> 4, den |-> 5], use_native_tools |-> FALSE]
    /\ am_pc = "idle"
    /\ am_user = NoUser
    /\ am_sink = "absent"
    /\ input_text = <<>>
    /\ sorted_memories = <<>>
    /\ cand = 1
    /\ added = <<>>
    /\ updated = <<>>
    /\ failed = <<>>
    /\ am_events = <<>>
    /\ am_result = Pending

InitMemory == MemInit /\ WxInit /\ MarInit /\ StageInit /\ BuildIdle /\ MarStageInit /\ ExtIdle
NextMemory == AddMemoryBegin \/ ProcessCandidate \/ AddMemoryFinish
SpecMemory == InitMemory /\ [][NextMemory]_vars

InitWeather == MemIdle /\ WxInit /\ MarInit /\ StageInit /\ BuildIdle /\ MarStageInit /\ ExtIdle
NextWeather == WxBegin \/ WxLocate \/ WxFetch \/ WxReturn
SpecWeather == InitWeather /\ [][NextWeather]_vars

InitMarine == MemIdle /\ WxInit /\ MarInit /\ StageInit /\ BuildIdle /\ MarStageInit /\ ExtIdle
NextMarine == MarBegin \/ MarResolve \/ MarFetch \/ MarReturn
SpecMarine == InitMarine /\ [][NextMarine]_vars

\* the forecast stage of get_current_weather
InitReport == MemIdle /\ WxInit /\ MarInit /\ StageInit /\ BuildIdle /\ MarStageInit /\ ExtIdle
NextReport == RpResolve \/ RpSelect \/ RpReport
SpecReport == InitReport /\ [][NextReport]_vars

\* the report stage of get_marine_weather
InitMarineReport == MemIdle /\ WxInit /\ MarInit /\ StageInit /\ BuildIdle /\ MarStageInit /\ ExtIdle
NextMarineReport == MrPayload \/ MrReport
SpecMarineReport == InitMarineReport /\ [][NextMarineReport]_vars

\* build_weather_report, called with any of its arguments
InitBuild == MemIdle /\ WxInit /\ MarInit /\ StageInit /\ BuildInit /\ MarStageInit /\ ExtIdle
NextBuild == BuildReport
SpecBuild == InitBuild /\ [][NextBuild]_vars

\* the wind of an hourly record, formatted for any setting
InitWind == MemIdle /\ WxInit /\ MarInit /\ StageInit /\ BuildIdle /\ MarStageInit /\ WindInit
            /\ FilterIdle /\ PipeIdle /\ ConcurrentIdle
NextWind == WindFormat
SpecWind == InitWind /\ [][NextWind]_vars

\* the two inlet filters, each on its own instance
InitFilter == MemIdle /\ WxInit /\ MarInit /\ StageInit /\ BuildIdle /\ MarStageInit /\ ExtIdle
NextFilter == InletUserInfo \/ InletMetadata
SpecFilter == InitFilter /\ [][NextFilter]_vars

\* one invocation of the vision pipe
InitPipe == MemIdle /\ WxInit /\ MarInit /\ StageInit /\ BuildIdle /\ MarStageInit /\ ExtIdle
NextPipe == PipeBegin \/ PipeVision \/ PipeText
SpecPipe == InitPipe /\ [][NextPipe]_vars

\* two interleaved invocations of get_current_weather
InitConcurrent == MemIdle /\ WxInit /\ MarInit /\ StageInit /\ BuildIdle /\ MarStageInit /\ ExtIdle
NextConcurrent == CwBegin \/ CwLocate \/ CwRequest \/ CwReport
SpecConcurrent == InitConcurrent /\ [][NextConcurrent]_vars

(***************************************************************************)
(* Properties of add_memory (checked under SpecMemory).                    *)
(***************************************************************************)
\* the entries of the snapshot whose ratio with the candidate c is strictly
\* greater than the threshold
OverThreshold(c) ==
    {i \in 1..Len(sorted_memories) :
        Similarity[c, sorted_memories[i].content].num * valves.threshold.den
            > valves.threshold.num * Similarity[c, sorted_memories[i].content].den}

\* the oldest of them by creation time
OldestOver(c) ==
    CHOOSE i \in OverThreshold(c) :
        \A j \in OverThreshold(c) :
            sorted_memories[i].created_at <= sorted_memories[j].created_at

\* the calls add_memory made on the store for candidate number k
CallsFor(k, op) ==
    {j \in 1..Len(store_calls) : store_calls[j].op = op /\ store_calls[j].cand = k}

\* C1: for every candidate of the batch and every threshold, an update is
\* issued on an existing entry E if and only if E is the oldest entry (by
\* creation time) whose similarity ratio with the candidate is strictly greater
\* than the threshold, and an insert is issued if and only if no entry's ratio
\* exceeds the threshold.
C1_UpdatesOldestMatchElseInserts ==
    \A k \in 1..Len(input_text) :
        /\ \A j \in CallsFor(k, "update") :
              /\ OverThreshold(input_text[k]) # {}
              /\ store_calls[j].id = sorted_memories[OldestOver(input_text[k])].id
        /\ CallsFor(k, "insert") # {} => OverThreshold(input_text[k]) = {}
        /\ (k < cand /\ OverThreshold(input_text[k]) # {}) => CallsFor(k, "update") # {}
        /\ (k < cand /\ OverThreshold(input_text[k]) = {}) => CallsFor(k, "insert") # {}

\* the store calls that change the store
Mutations == {j \in 1..Len(store_calls) : store_calls[j].op \in {"insert", "update"}}

\* C2: a call of add_memory without user (absent or empty __user__) or with a
\* user without 'id' issues no insert and no update (no store call at all), and
\* what it returns is a failure message.  A progress sink that raises makes
\* the call raise; it still touches nothing.
C2_MissingUserFailsWithoutMutation ==
    (am_pc = "done" /\ am_user \in {NoUser, EmptyUser, UserNoId}) =>
        /\ Mutations = {}
        /\ store_calls = <<>>
        /\ added = <<>> /\ updated = <<>>
        /\ am_result.kind = "returned" => am_result.value.message.tag = "error"
        /\ am_sink # "fails" => am_result.kind = "returned"

\* C2 happens: a user without 'id' adds candidates to a store that has entries
C2_Witness ==
    /\ am_pc = "done"
    /\ am_user = UserNoId
    /\ am_sink = "accepts"
    /\ input_text # <<>>
    /\ memories # <<>>
    /\ am_result.kind = "returned"
    /\ am_result.value.message.tag = "error"

\* add_memory has finished a call with a valid user and an empty list
ValidUserEmptyList == am_pc = "done" /\ am_user = UserU1 /\ input_text = <<>>

\* the "nothing changed" message
NothingChanged(result) ==
    /\ result.kind = "returned"
    /\ result.value.message.tag = "summary"
    /\ result.value.message.parts = <<[what |-> "nothing", n |-> 0]>>

\* C3 as stated: with a valid user and an empty candidate list add_memory
\* returns the "nothing changed" message and makes no call at all on the
\* store: no read, no insert, no update.
C3_EmptyListMakesNoStoreCall ==
    (ValidUserEmptyList /\ am_sink # "fails") =>
        /\ store_calls = <<>>
        /\ NothingChanged(am_result)

\* C3 as amended: with a valid user and an empty candidate list add_memory
\* issues no insert and no update and at most one store call, the read of the
\* user's entries, which it makes whenever the progress sink does not raise;
\* when that read succeeds and the call returns, it returns the "nothing
\* changed" message.
C3_EmptyListOnlyReads ==
    ValidUserEmptyList =>
        /\ Mutations = {}
        /\ Len(store_calls) <= 1
        /\ am_sink # "fails" => Len(store_calls) = 1
        /\ \A j \in 1..Len(store_calls) : store_calls[j].op = "read"
        /\ (am_result.kind = "returned" /\ store_calls # <<>> /\ store_calls[1].result = "ok")
              => NothingChanged(am_result)

\* C3 happens: the list is empty, the store has entries, the read succeeded
C3_Witness ==
    /\ ValidUserEmptyList
    /\ memories # <<>>
    /\ store_calls # <<>>
    /\ store_calls[1].result = "ok"
    /\ NothingChanged(am_result)

\* C4: a store operation that fails for one candidate (a falsy answer or an
\* error) is never fatal to the batch: add_memory still processes every later
\* candidate and returns the summary, in which the failure is counted.
C4_StoreFailureNotFatal ==
    (am_pc = "done" /\ am_sink # "fails" /\ store_calls # <<>>
        /\ store_calls[1].result = "ok"
        /\ \E j \in Mutations : store_calls[j].result # "ok") =>
        /\ am_result.kind = "returned"
        /\ am_result.value.message.tag = "summary"
        /\ cand = Len(input_text) + 1
        /\ failed # <<>>

\* the last event is a done event, and the only one
DoneLast(events) ==
    /\ events # <<>>
    /\ events[Len(events)].done
    /\ \A i \in 1..(Len(events) - 1) : ~events[i].done

\* an error message was returned, and the last event does not describe it
ErrorUntold(result, events) ==
    /\ result.value.message.tag = "error"
    /\ events[Len(events)].description # result.value.message.text

\* C18: every invocation of add_memory, get_current_weather and
\* get_marine_weather that is given a progress sink and returns, with a result
\* or on any error path, has emitted a status event with done = true as its
\* last event, which on an error path carries the error description, and has
\* emitted no status event after a done = true event.
C18_DoneEventIsLast ==
    /\ (am_pc = "done" /\ am_sink = "accepts" /\ am_result.kind = "returned") =>
          (DoneLast(am_events) /\ ~ErrorUntold(am_result, am_events))
    /\ (wx_pc = "done" /\ wx_sink = "accepts" /\ wx_result.kind = "returned") =>
          (DoneLast(wx_events) /\ ~ErrorUntold(wx_result, wx_events))
    /\ (mar_pc = "done" /\ mar_sink = "accepts" /\ mar_result.kind = "returned") =>
          (DoneLast(mar_events) /\ ~ErrorUntold(mar_result, mar_events))

(***************************************************************************)
(* Properties of the entry points (checked under SpecWeather).             *)
(***************************************************************************)
\* C5: no failure escapes an entry point as an exception: whatever network
\* call, store call or parsing step fails, device-coordinate resolution
\* included, a finished invocation of add_memory, get_current_weather or
\* get_marine_weather has returned a message (the progress sink working).
C5_NoFailureEscapes ==
    /\ (wx_pc = "done" /\ wx_sink # "fails") => wx_result.kind = "returned"
    /\ (mar_pc = "done" /\ mar_sink # "fails") => mar_result.kind = "returned"
    /\ (am_pc = "done" /\ am_sink # "fails") => am_result.kind = "returned"

\* the settings an invocation is given by its own __user__ argument alone
OwnUserValves(u) ==
    IF u.kind = "dict" /\ u.valves # <<>> THEN u.valves[1] ELSE DefaultUserValves

\* the forecast requests of the invocation
ForecastRequests ==
    {i \in 1..Len(wx_requests) : wx_requests[i].api = "forecast"}

\* C6: no mutable state crosses invocations: the settings an invocation of
\* get_current_weather applies, in its forecast request and in its report, are
\* those of its own __user__ argument, and the defaults when __user__ is absent
\* or carries no valves, whatever earlier invocations were given.
C6_SettingsOfThisInvocationOnly ==
    /\ \A i \in ForecastRequests :
          wx_requests[i] =
              ForecastRequest(wx_latitude[1], wx_longitude[1], OwnUserValves(wx_user),
                              SpeedUnit(OwnUserValves(wx_user).wind_speed_unit,
                                        OwnUserValves(wx_user).use_imperial))
    /\ (wx_pc = "done" /\ wx_result.kind = "returned"
            /\ wx_result.value.message.tag = "report") =>
          wx_result.value.message.show_humidity = OwnUserValves(wx_user).show_humidity

\* numeric latitude/longitude pairs, in tenths of a degree
PairLatitude(loc) == IF loc = LocSouth THEN 0 - 457 ELSE 457
PairLongitude(loc) == 48

SearchRequests(requests) == {i \in 1..Len(requests) : requests[i].api = "search"}

\* C7: for a location that is a numeric latitude/longitude pair written with
\* ',', '/' or 'x', get_current_weather issues no place-name geocoding search
\* and requests the forecast for exactly that latitude and longitude.
C7_NumericPairNeedsNoSearch ==
    wx_location \in {LocComma, LocSlash, LocCross, LocSouth} =>
        /\ SearchRequests(wx_requests) = {}
        /\ \A i \in ForecastRequests :
              /\ wx_requests[i].latitude = PairLatitude(wx_location)
              /\ wx_requests[i].longitude = PairLongitude(wx_location)

\* the city and the region of a "City, Region" location
CityOf(loc) == IF loc = LocCityState THEN <<"P", "a", "u">> ELSE <<"9", "e">>
RegionOf(loc) == IF loc = LocCityState THEN <<"I", "D", "F">> ELSE <<"7", "e">>

\* the first candidate whose admin1 is the region, case ignored, else the first
CandidateFor(results, region) ==
    LET hits == {i \in 1..Len(results) :
                    results[i].admin1 # NoText /\ Lower(results[i].admin1) = Lower(region)}
    IN  IF hits = {} THEN results[1]
        ELSE results[CHOOSE i \in hits : \A j \in hits : i <= j]

\* C8: a location "City, Region" whose parts are not numbers makes
\* get_current_weather issue one geocoding search, for City, and use the
\* coordinates of the first candidate whose admin1 equals Region ignoring case,
\* or of the first candidate when none matches.
C8_CityRegionSearch ==
    (wx_location \in {LocCityState, LocNumbered} /\ wx_pc \in {"fetch", "done"}
        /\ wx_sink # "fails") =>
        /\ Cardinality(SearchRequests(wx_requests)) = 1
        /\ \A i \in SearchRequests(wx_requests) :
              wx_requests[i].name = Quote(CityOf(wx_location))
        /\ (wx_geo_response.kind = "ok" /\ wx_geo_response.results # <<>>) =>
              /\ wx_latitude =
                    <<CandidateFor(wx_geo_response.results, RegionOf(wx_location)).latitude>>
              /\ wx_longitude =
                    <<CandidateFor(wx_geo_response.results, RegionOf(wx_location)).longitude>>

(***************************************************************************)
(* Properties of get_marine_weather (checked under SpecMarine).            *)
(***************************************************************************)
\* the invocation got past the check of tp and through _resolve_location
MarResolved == mar_pc \in {"fetch", "done"} /\ ~InvalidTp(mar_user_valves)

\* C9: every non-empty location whose parts are not numbers is a place name
\* for get_marine_weather and is resolved through the geocoding search: a
\* plain city, a "City, Region" pair, whose region selects the candidate, and
\* a name that contains ',', '/' or the letter 'x'.
C9_PlaceNamesAreSearched ==
    (mar_location \in {LocCity, LocCityX, LocCityState} /\ MarResolved
        /\ mar_sink # "fails") =>
        /\ Cardinality(SearchRequests(mar_requests)) = 1
        /\ (mar_location = LocCityState /\ mar_geo.kind = "ok" /\ mar_geo.results # <<>>
               /\ mar_pc = "fetch") =>
              mar_latitude = <<CandidateFor(mar_geo.results, <<"I", "D", "F">>).latitude>>

\* C10: with an empty location and device coordinates "45.7, 4.8" in the
\* metadata, get_marine_weather issues no place-name geocoding search and
\* requests the forecast for exactly those coordinates.
C10_DeviceCoordinatesUsed ==
    (mar_location = <<>> /\ MetaLocation(mar_metadata) = MetaNorth /\ MarResolved
        /\ mar_sink # "fails") =>
        /\ SearchRequests(mar_requests) = {}
        /\ \A i \in 1..Len(mar_requests) :
              mar_requests[i].api = "marine" =>
                 mar_requests[i].latitude = 457 /\ mar_requests[i].longitude = 48

\* C17: a time-interval setting outside {"1", "3", "6", "12", "24"} is
\* rejected by get_marine_weather before any network call: the invocation is
\* over without a geocoding, reverse-geocoding or forecast request, and (the
\* progress sink working) it has returned the invalid-interval error message.
\* The setting is the one in effect, self.user_valves.tp.
C17_InvalidIntervalRejectedFirst ==
    (mar_pc # "idle" /\ mar_user_valves.tp = "2") =>
        /\ mar_pc = "done"
        /\ mar_requests = <<>>
        /\ mar_sink # "fails" =>
              /\ mar_result.kind = "returned"
              /\ mar_result.value.message = ErrorMessage("Error: Invalid time interval.")

C17_Witness ==
    /\ mar_pc = "done"
    /\ mar_user_valves.tp = "2"
    /\ mar_location = LocCity
    /\ mar_sink = "accepts"
    /\ mar_requests = <<>>
    /\ mar_result.kind = "returned"
    /\ mar_events = <<WxStatus("Error: Invalid time interval.", TRUE)>>

(***************************************************************************)
(* Units of get_current_weather (checked under SpecWeather).               *)
(***************************************************************************)
\* C19: whenever the use_imperial valve is true, get_current_weather requests
\* and reports the forecast in Fahrenheit, mph and inch; in particular with
\* wind_speed_unit left at its default the wind-speed unit sent upstream and
\* shown in the report is mph.
C19_ImperialMeansMph ==
    wx_user_valves.use_imperial =>
        /\ \A i \in ForecastRequests :
              /\ wx_requests[i].temperature_unit = "fahrenheit"
              /\ wx_requests[i].wind_speed_unit = "mph"
              /\ wx_requests[i].precipitation_unit = "inch"
        /\ (wx_pc = "done" /\ wx_result.kind = "returned"
               /\ wx_result.value.message.tag = "report") =>
              wx_result.value.message.units = [temp |-> "F", wind |-> "mph", precip |-> "inch"]

(***************************************************************************)
(* Reverse geocoding (checked under SpecWeather).                          *)
(***************************************************************************)
ReverseRequests(requests) == {i \in 1..Len(requests) : requests[i].api = "reverse"}

\* C11: reverse geocoding is best-effort: an invocation that made the
\* reverse-geocoding call for its coordinates has, whatever the call answered
\* (a name, no name, a non-success status or a transport error), a display
\* name that is the name obtained or the literal coordinates, and has gone on
\* to the forecast request (get_current_weather and get_marine_weather, the
\* progress sink working).
C11_ReverseGeocodingBestEffort ==
    /\ (wx_pc = "done" /\ wx_sink # "fails" /\ ReverseRequests(wx_requests) # {}) =>
          /\ wx_resolved.kind \in {"display_name", "coordinates"}
          /\ wx_resolved.latitude = wx_latitude[1]
          /\ wx_resolved.longitude = wx_longitude[1]
          /\ ForecastRequests # {}
    /\ (mar_pc = "done" /\ mar_sink # "fails" /\ ReverseRequests(mar_requests) # {}) =>
          /\ mar_resolved.kind \in {"display_name", "coordinates"}
          /\ \E i \in 1..Len(mar_requests) : mar_requests[i].api = "marine"

(***************************************************************************)
(* Properties of the forecast stage (checked under SpecReport).            *)
(***************************************************************************)
\* C12: whenever the parser gives nothing for the combined date and hour text,
\* the empty text included, the target hour of get_current_weather is the
\* instant of the invocation with its minutes dropped, and the invocation
\* goes on to the forecast without an error returned or reported.
C12_UnparsedFallsBackToAnchor ==
    (rp_pc # "idle" /\ rp_parsed = <<>>) =>
        /\ target_hour_str = [day |-> rp_base.day, hour |-> rp_base.hour, minute |-> 0]
        /\ rp_pc = "select" => (rp_result = Pending /\ rp_events = <<>>)

C12_Witness ==
    /\ rp_pc = "select"
    /\ rp_parsed = <<>>
    /\ combined_str = <<" ", "n", "o", "o", "n">>
    /\ rp_base.minute = 30
    /\ target_hour_str = At(1, 12, 0)

\* the weather code of the selected hour: the entry of the payload's
\* weathercode list at the selected index, and the placeholder -1 when the
\* payload has no such entry
SelectedCode ==
    IF hourly_data.weathercode # <<>> /\ rp_index[1] <= Len(hourly_data.weathercode[1])
    THEN hourly_data.weathercode[1][rp_index[1]]
    ELSE [type |-> "int", value |-> 0 - 1]

\* the payload has a temperature for every hour
TemperaturesGiven ==
    /\ hourly_data.temperature_2m # <<>>
    /\ \A i \in 1..Len(hourly_data.temperature_2m[1]) :
          hourly_data.temperature_2m[1][i] # <<>>

\* C15: the condition line of the report of get_current_weather shows the
\* table's description for a code of the table and "Unknown weather" for
\* every other integer code of the selected hour, the placeholder used when
\* the payload gives no code included.
C15_UnknownCodesAreUnknownWeather ==
    (rp_pc = "done" /\ rp_index # <<>> /\ TemperaturesGiven
        /\ SelectedCode.type = "int") =>
        /\ rp_result.kind = "returned"
        /\ rp_result.value.message.tag = "report"
        /\ LET lines == rp_result.value.message.lines
               last == lines[Len(lines)]
           IN  /\ last.label = "Weather"
               /\ last.value[1] =
                     IF SelectedCode.value \in DOMAIN WeatherCodeMapping
                     THEN WeatherCodeMapping[SelectedCode.value]
                     ELSE "Unknown weather"

(***************************************************************************)
(* Properties of build_weather_report (checked under SpecBuild).           *)
(***************************************************************************)
\* the sections of the report, in their order
Sections == << "header", "time", "temperature", "humidity", "precipitation", "wind",
               "visibility", "pressure", "cloud_cover", "uv_index", "sun_times",
               "condition" >>

\* the section a line belongs to
SectionOf(label) ==
    CASE label = "Weather for" -> "header"
      [] label = "Time" -> "time"
      [] label \in {"Temperature", "Feels Like"} -> "temperature"
      [] label \in {"Relative Humidity", "Dew Point"} -> "humidity"
      [] label \in {"Precipitation", "Precipitation Probability"} -> "precipitation"
      [] label \in {"Wind Speed", "Wind Direction"} -> "wind"
      [] label = "Visibility" -> "visibility"
      [] label = "Pressure" -> "pressure"
      [] label = "Cloud Cover" -> "cloud_cover"
      [] label = "UV Index (max)" -> "uv_index"
      [] label \in {"Sunrise", "Sunset"} -> "sun_times"
      [] label = "Weather" -> "condition"

Rank(section) == CHOOSE k \in 1..Len(Sections) : Sections[k] = section

\* the toggle of an optional section
ToggleOf(section) ==
    CASE section = "humidity" -> "show_humidity"
      [] section = "precipitation" -> "show_precipitation"
      [] section = "wind" -> "show_wind"
      [] section = "visibility" -> "show_visibility"
      [] section = "pressure" -> "show_pressure"
      [] section = "cloud_cover" -> "show_cloud_cover"
      [] section = "uv_index" -> "show_uv_index"
      [] section = "sun_times" -> "show_sun_times"

OptionalSections == {"humidity", "precipitation", "wind", "visibility", "pressure",
                     "cloud_cover", "uv_index", "sun_times"}

\* C16: for every combination of toggles and data the lines build_weather_report
\* produces are in the section order header, time, temperature/feels-like,
\* humidity/dew point, precipitation, wind, visibility, pressure, cloud cover,
\* UV index, sun times, condition description, and a line of an optional
\* section is present only if the section's toggle is enabled.
C16_ReportSectionsInOrder ==
    (br_pc = "built" /\ ~report_lines.raised) =>
        LET lines == report_lines.lines
        IN  /\ lines # <<>>
            /\ lines[1].label = "Weather for"
            /\ lines[Len(lines)].label = "Weather"
            /\ \A i \in 1..Len(lines), j \in 1..Len(lines) :
                  i < j => Rank(SectionOf(lines[i].label)) <= Rank(SectionOf(lines[j].label))
            /\ \A i \in 1..Len(lines) :
                  SectionOf(lines[i].label) \in OptionalSections =>
                      br_data[ToggleOf(SectionOf(lines[i].label))]

C16_Witness ==
    /\ br_pc = "built"
    /\ ~report_lines.raised
    /\ br_data.show_sun_times /\ br_data.show_uv_index /\ ~br_data.show_wind
    /\ br_data.show_humidity /\ br_data.dew_point = <<>>
    /\ Len(report_lines.lines) = 10

(***************************************************************************)
(* Properties of the marine report (checked under SpecMarineReport).       *)
(***************************************************************************)
\* the hour arguments that name a time, and the time each names (hhmm)
TimeTexts == { <<"1", "2", "h">>, <<"1", "4", "h">>, <<"1", "2", "0", "0">> }
RequestedTime(hour) == IF hour = <<"1", "4", "h">> THEN 1400 ELSE 1200

\* the invocation returned a report
MarineReported ==
    /\ mr_pc = "done"
    /\ mr_result.kind = "returned"
    /\ mr_result.value.message.tag = "report"

\* the days of the payload that the resolved date lets through
ReportedDays ==
    {k \in 1..Len(mr_weather_days) :
        mr_parsed_date = <<>> \/ mr_parsed_date[1] = mr_weather_days[k].date}

\* the times of the hourly blocks the report shows for a date
BlockTimes(report, date) ==
    {report[i].time : i \in {j \in 1..Len(report) :
                                report[j].kind = "hour" /\ report[j].date = date}}

\* the hourly blocks the report shows for a date
HourBlocks(report, date) ==
    {i \in 1..Len(report) : report[i].kind = "hour" /\ report[i].date = date}

NoMatchingRecord ==
    /\ mr_weather_days # <<>>
    /\ \A k \in ReportedDays : mr_weather_days[k].hourly = <<>>

\* C14: when the payload holds no day/hour record matching the resolved date
\* and hour, get_marine_weather reports an error: the message returned is an
\* error message, not an empty or partial report, and the final status event
\* carries the error description, not a success description.
C14_NoMatchingRecordIsAnError ==
    (mr_pc = "done" /\ NoMatchingRecord) =>
        /\ mr_result.kind = "returned"
        /\ mr_result.value.message.tag = "error"
        /\ mr_sink = "accepts" =>
              /\ mr_events # <<>>
              /\ mr_events[Len(mr_events)].done
              /\ mr_events[Len(mr_events)].description = mr_result.value.message.text

\* C20: called without an hour, get_marine_weather reports the current hour
\* only: the report shows one hourly block for a selected day that has
\* records, not every hourly record of the day.
C20_NoHourMeansCurrentHourOnly ==
    (MarineReported /\ mr_hour = <<>>) =>
        \A k \in ReportedDays :
            mr_weather_days[k].hourly # <<>> =>
                Cardinality(HourBlocks(mr_result.value.message.report,
                                       mr_weather_days[k].date)) = 1

(***************************************************************************)
(* Properties of the reconciliation loop of add_memory (SpecMemory).       *)
(***************************************************************************)
\* the first entry of the snapshot, in scan order, whose ratio with the
\* candidate c exceeds the threshold
FirstOver(c) ==
    CHOOSE i \in OverThreshold(c) : \A j \in OverThreshold(c) : i <= j

\* C24: for each candidate the scan of the existing entries stops at the first
\* entry whose similarity exceeds the threshold: at most one update call is
\* issued per candidate, it targets that first (oldest) over-threshold entry,
\* and an insert is issued for a candidate only if no existing entry exceeded
\* the threshold, whatever value the update call returns.
C24_ScanStopsAtFirstMatch ==
    \A k \in 1..Len(input_text) :
        /\ Cardinality(CallsFor(k, "update")) <= 1
        /\ \A j \in CallsFor(k, "update") :
              /\ OverThreshold(input_text[k]) # {}
              /\ store_calls[j].id = sorted_memories[FirstOver(input_text[k])].id
        /\ CallsFor(k, "insert") # {} => OverThreshold(input_text[k]) = {}

\* the candidates for which some store operation returned a falsy value
FalsyCandidates ==
    {k \in 1..Len(input_text) :
        \E j \in 1..Len(store_calls) :
            /\ store_calls[j].cand = k
            /\ store_calls[j].op \in {"insert", "update"}
            /\ store_calls[j].result = "falsy"}

\* the contents recorded in a list of outcomes
Recorded(list) == {list[i] : i \in 1..Len(list)}

\* add_memory has processed the whole batch and returned its summary
BatchProcessed ==
    /\ am_pc = "done"
    /\ am_result.kind = "returned"
    /\ am_result.value.message.tag = "summary"

\* C25: after add_memory has processed a batch for a valid user, every
\* candidate is recorded in exactly one of the outcomes added, updated or
\* failed: the three counts sum to the number of candidates of the batch, and a
\* candidate whose store operation returned a falsy value is recorded as
\* failed (and only such candidates are).
C25_EveryCandidateHasOneOutcome ==
    BatchProcessed =>
        /\ Len(added) + Len(updated) + Len(failed) = Len(input_text)
        /\ \A k \in FalsyCandidates : input_text[k] \in Recorded(failed)
        /\ Len(failed) = Cardinality(FalsyCandidates)

\* the contents of the entries of the store
StoreContents == {memories[i].content : i \in 1..Len(memories)}

\* the candidates the summary reports as added or updated
ReportedCandidates ==
    Recorded(added) \cup {updated[i][2] : i \in 1..Len(updated)}

\* C26: when add_memory returns, every candidate that its summary reports as
\* added or updated is the content of some entry of the user's store at that
\* moment: no reported candidate has been overwritten by a later candidate of
\* the same batch (add_memory is the only writer of the store).
C26_ReportedCandidatesAreStored ==
    BatchProcessed => ReportedCandidates \subseteq StoreContents

\* every call made on the store succeeded
AllStoreCallsSucceeded ==
    \A j \in 1..Len(store_calls) : store_calls[j].result = "ok"

\* C27: each candidate is reconciled against the store as it stands when that
\* candidate is processed, entries inserted or updated earlier in the same
\* batch included: with all store operations succeeding and a threshold below
\* 1, a batch that contains the same string twice and matches no pre-existing
\* entry leaves exactly one new entry in the store.
C27_BatchDuplicatesAreReconciled ==
    (/\ BatchProcessed
     /\ AllStoreCallsSucceeded
     /\ valves.threshold.num < valves.threshold.den
     /\ Len(input_text) = 2
     /\ input_text[1] = input_text[2]
     /\ OverThreshold(input_text[1]) = {}) =>
        Len(memories) = Len(sorted_memories) + 1

(***************************************************************************)
(* Properties of the progress sink (SpecMemory, SpecWeather, SpecMarine).  *)
(***************************************************************************)
\* C22: progress notification is best-effort and never affects the outcome of
\* add_memory, get_current_weather and get_marine_weather: an error of the
\* progress sink is ignored, so an invocation whose sink fails on an event
\* still returns its message, never the sink's error, and add_memory for a
\* valid user has still read the store, as it does without a sink.
C22_ProgressIsBestEffort ==
    /\ (am_pc = "done" /\ am_sink = "fails") =>
          /\ am_result.kind = "returned"
          /\ ~MissingUser(am_user) => store_calls # <<>>
    /\ (wx_pc = "done" /\ wx_sink = "fails") => wx_result # Raised("sink error")
    /\ (mar_pc = "done" /\ mar_sink = "fails") => mar_result # Raised("sink error")

(***************************************************************************)
(* Properties of the hourly index of get_current_weather (SpecReport).     *)
(***************************************************************************)
\* the positions of the payload's time list that carry the target hour
\* exactly, and those that share its date and hour
ExactTimes ==
    {i \in 1..Len(hourly_data.time) : hourly_data.time[i] = target_hour_str}

SameHourTimes ==
    {i \in 1..Len(hourly_data.time) :
        /\ hourly_data.time[i].day = target_hour_str.day
        /\ hourly_data.time[i].hour = target_hour_str.hour}

\* the stage has looked the target hour up in the payload
HourLookedUp == rp_pc \in {"report", "done"}

Distance(a, b) == IF a >= b THEN a - b ELSE b - a

\* A speed x in knots, converted back to km/h with the inverse of the
\* multiplier, is within 0.1 km/h of k: x / 0.539957 is within 0.1 of k
\* exactly when x is within 0.1 * 0.539957 of k * 0.539957 (x in millionths).
BackWithinTenth(x, k) == 10 * Distance(x, k * 539957) <= 539957

\* C21: a wind speed shown in knots is the km/h speed multiplied by 0.539957,
\* to the tenth shown (the value convert_unit gives for km/h to knots, to
\* the tenth), and converting the shown value back with the inverse
\* factor gives a value within 0.1 km/h of the original; 10 km/h is shown as
\* 5.4 knots, within 0.1.
C21_KnotsRoundTrip ==
    (wd_pc = "shown" /\ wd_setting = "knots") =>
        /\ wd_wind.wind_unit = "knots"
        /\ wd_wind.wind % 100000 = 0
        /\ Distance(wd_wind.wind, ConvertUnit(wd_hourly.windspeedKmph, "kmh", "knots")) <= 50000
        /\ Distance(wd_wind.wind, wd_hourly.windspeedKmph * 539957) <= 50000
        /\ BackWithinTenth(wd_wind.wind, wd_hourly.windspeedKmph)
        /\ wd_hourly.windspeedKmph = 10 => Distance(wd_wind.wind, 5400000) <= 100000

\* C21 happens: 10 km/h has been shown in knots, as 5.4
C21_Witness ==
    /\ wd_pc = "shown"
    /\ wd_setting = "knots"
    /\ wd_hourly.windspeedKmph = 10
    /\ wd_wind = [wind |-> 5400000, wind_unit |-> "knots"]

(***************************************************************************)
(* Properties of the inlet filters (checked under SpecFilter).             *)
(***************************************************************************)
\* the messages of a body; none when the body has no "messages" key
MessagesOf(body) == IF body.messages = <<>> THEN <<>> ELSE body.messages[1]

\* C28: Filter.inlet of add_user_info.py and of add_metadata.py, for every
\* body and for __user__ present or absent, returns the body with exactly one
\* new system message inserted at position 0 of "messages" and all the
\* messages previously present unchanged and in their order after it; it
\* raises no exception, the first call of an instance with no user included.
C28_InletInsertsOneSystemMessage ==
    fl_calls > 0 =>
        /\ fl_result.kind = "returned"
        /\ fl_result.value.model = fl_body.model
        /\ Len(MessagesOf(fl_result.value)) = Len(MessagesOf(fl_body)) + 1
        /\ MessagesOf(fl_result.value)[1].role = "system"
        /\ Tail(MessagesOf(fl_result.value)) = MessagesOf(fl_body)

(***************************************************************************)
(* Properties of the vision pipe (checked under SpecPipe).                 *)
(***************************************************************************)
\* the model calls of a step, by position
StepCalls(step) == {i \in 1..Len(pp_calls) : pp_calls[i].step = step}

\* the messages the body was given
GivenMessages == IF pp_given = <<>> THEN <<>> ELSE pp_given[1]

\* C29: in every run of Pipe.pipe that returns, the text model is called
\* exactly once, that call is the last model call and produces the returned
\* value; the vision model is called at most once, only when the most recent
\* user message contains an image, strictly before the text-model call, and
\* its output has been appended as a system message after all the messages of
\* the body before the text-model call is made.
C29_VisionThenTextOnce ==
    (pp_pc = "done" /\ pp_result.kind = "returned") =>
        /\ StepCalls("text") = {Len(pp_calls)}
        /\ pp_calls[Len(pp_calls)].model = pp_valves.TEXT_MODEL_ID
        /\ pp_calls[Len(pp_calls)].response = pp_result.value
        /\ Cardinality(StepCalls("vision")) <= 1
        /\ StepCalls("vision") # {} =>
              /\ StepCalls("vision") = {1}
              /\ Len(pp_calls) = 2
              /\ pp_calls[1].model = pp_valves.VISION_MODEL_ID
              /\ LET users == {i \in 1..Len(GivenMessages) : GivenMessages[i].role = "user"}
                 IN  /\ users # {}
                     /\ \E i \in users :
                           /\ \A j \in users : j <= i
                           /\ ContainsImage(GivenMessages[i].content)
                           /\ pp_calls[1].messages[2] = GivenMessages[i]
              /\ pp_calls[2].messages
                    = Append(GivenMessages, AnalysisMessage(pp_calls[1].response))
        /\ StepCalls("vision") = {} => pp_calls[1].messages = GivenMessages

\* C29 happens: the image is in the most recent user message, an answer of
\* the assistant follows it, and both models have answered
C29_Witness ==
    /\ pp_pc = "done"
    /\ pp_result = Returned("r2")
    /\ Len(pp_calls) = 2
    /\ Len(GivenMessages) = 2
    /\ GivenMessages[2].role = "assistant"
    /\ pp_calls[1].response = "r1"
    /\ pp_calls[2].messages[3] = AnalysisMessage("r1")

(***************************************************************************)
(* Properties of concurrent invocations (checked under SpecConcurrent).    *)
(***************************************************************************)
\* C30: when two invocations of get_current_weather for different users run
\* on the same Tools instance and interleave at their awaited progress
\* notifications, each builds its forecast request and its report entirely
\* from its own user's valves: no interleaving makes one invocation use the
\* other's unit or toggle settings, nor a mix of both.
C30_NoCrossUserSettings ==
    \A p \in Invocations :
        /\ cw_request[p] # <<>> =>
              cw_request[p][1] =
                  ForecastRequest(<<433>>, <<0 - 4>>, cw_own[p],
                                  SpeedUnit(cw_own[p].wind_speed_unit, cw_own[p].use_imperial))
        /\ cw_report[p] # <<>> =>
              cw_report[p][1] =
                  ReportSettings(cw_own[p],
                                 SpeedUnit(cw_own[p].wind_speed_unit, cw_own[p].use_imperial))

====
